---- MODULE Spec2Model ----
(***************************************************************************)
(* Model of the service_status monitoring core: the SQLite-backed Storage  *)
(* (service_state and incidents tables, RecordStatusTransition) and the    *)
(* NotificationManager (edge detection, cooldown, notifier fan-out).       *)
(***************************************************************************)
EXTENDS Integers, Sequences, FiniteSets, TLC

\* ---------------------------------------------------------------- bounds
\* Largest value of the wall clock.
MaxClock == 2
\* Largest number of rows of the incidents table.
MaxRows == 2
\* Largest number of notifiers registered with a manager.
MaxNotifiers == 2

\* Largest number of probes in the list of one sweep.
MaxProbes == 2
\* Largest number of probe checks in one behaviour, and so of status_checks rows;
\* a sweep that checks no probe counts as one.
MaxChecks == 2
\* Largest number of rows of incidents when the resolved incidents are queried.
MaxIncidents == 4
\* Last instant of the wall clock when the resolved incidents are queried.
MaxInstant == 3
\* Largest number of characters of an address written out character by character.
MaxHostLen == 3
\* Largest number of labels of an address made of long labels.
MaxLabels == 4

\* ---------------------------------------------------------------- program constants
\* The outage duration, in minutes, shown for every service that is not up.
defaultOutageMinutes == 60

\* ---------------------------------------------------------------- inputs
\* Goroutines that call the Storage concurrently.
Callers == {"c1", "c2"}
\* Goroutines that call the NotificationManager concurrently.
NMCallers == {"g1", "g2"}
\* Service types, each with its factory.
FactoryTypes == {"ping", "grep", "tcp", "icmp", "script"}
\* An address (Service.URL) is a sequence of runs: the character c, n times over.
\* The characters of an address: letters (a is a hex digit, z is not), a digit, the
\* hyphen, the dot, the colon, white space and shell metacharacters (the backquote
\* is written BACKQUOTE).
Chars == {"a", "z", "1", "-", ".", ":", " ", "\n", ";", "|", "&", "$", "BACKQUOTE"}
\* The address made of the given characters, one run each.
Text(chars) == [k \in DOMAIN chars |-> [c |-> chars[k], n |-> 1]]
\* Lengths of the long labels of an address.
LabelLengths == {1, 61, 63, 64}
\* The address made of labels of the letter a of the given lengths, joined by dots.
RECURSIVE Dotted(_)
Dotted(lengths) ==
    IF Len(lengths) = 1 THEN <<[c |-> "a", n |-> lengths[1]]>>
    ELSE <<[c |-> "a", n |-> lengths[1]], [c |-> ".", n |-> 1]>> \o Dotted(Tail(lengths))
\* The addresses a configuration may give an icmp service: every text of up to
\* MaxHostLen characters, and up to MaxLabels long labels joined by dots.
HostInputs ==
    {Text(t) : t \in UNION {[1..k -> Chars] : k \in 0..MaxHostLen}}
    \cup {Dotted(l) : l \in UNION {[1..k -> LabelLengths] : k \in 1..MaxLabels}}
\* The services a configuration may list: a known or unknown type, with or without
\* each of the fields, the command possibly blank, the host possibly malformed; and
\* icmp services of any address.
ConfiguredServices ==
    [Type : FactoryTypes \cup {"other"},
     URL : {<<>>, Text(<<"a">>), Text(<<"a", " ", "a">>)}, Port : {"", "80"},
     Regex : {"", "re"}, Name : {""}, Command : {"", " ", "cmd"}]
    \cup [Type : {"icmp"}, URL : HostInputs, Port : {""}, Regex : {""}, Name : {""},
          Command : {""}]
\* Values of limit in a query for the resolved incidents.
Limits == {1, 2}
\* Values of minDuration in a query for the resolved incidents, in ticks.
MinDurations == {0, 1}
\* Cooldown periods a manager may be constructed with, in ticks.
Cooldowns == {0, 1, 2}
\* Notifier implementations: the HTTP ones may fail, the log one never does.
NotifierKinds == {"webhook", "log"}
\* Service identities (Service.URL).
Services == {"s1", "s2"}
\* Display name of a service (Service.DisplayName()).
DisplayName(serviceURL) == IF serviceURL = "s1" THEN "n1" ELSE "n2"
\* Error messages a probe may report.
Messages == {"m1"}
\* The SQL statement of a call that returns an error, if any.
Failures == {"none", "get", "incident", "update"}
\* Service.Name values of the configuration; "" is a service without a name.
Names == {"", "n1"}
\* The configured services a probe may wrap: two of them share a URL, two a name.
Pingers == {p \in [URL : Services, Name : Names, Command : {<<>>}] :
               p.URL = "s1" \/ p.Name = "n1"}
\* What a probe's check finds.
Outcomes == {"up", "degraded", "down"}
\* Durations a probe's check may take.
ResponseTimes == {7}
\* Maintenance messages of the configuration; "" is none.
MaintenanceMsgs == {"", "maint"}

\* ---------------------------------------------------------------- state
VARIABLES
    now,            \* the wall clock, in ticks (time.Now())
    incidents,      \* table incidents: sequence of rows, in id order
    service_state,  \* table service_state: service_url -> row
    last,           \* history: the last completed Storage call, its arguments and results
    call,           \* per concurrent caller: where its RecordStatusTransition call stands
    notifiers,      \* NotificationManager.notifiers, in registration order
    cooldown,       \* NotificationManager.cooldown
    lastAlert,      \* NotificationManager.lastAlert: service -> instant
    serviceState,   \* NotificationManager.serviceState: service -> up?
    mu,             \* NotificationManager.mu: the goroutine holding it, or "free"
    cur,            \* the CheckAndNotify call that holds mu: its locals
    lastSent,       \* history: per service, the timestamp of its last delivered alert
    nmlast,         \* history: the last CheckAndNotify call that returned
    alerts,         \* table alerts: sequence of rows, in id order
    storage,        \* NotificationManager.storage: is a Storage attached?
    trueLog,        \* history: the CheckAndNotify calls that returned true with a Storage attached
    notified,       \* history: the last CheckAndNotify call run without overlap
    nmcall,         \* per goroutine: where its CheckAndNotify call stands, statement by statement
    lastLock,       \* history: per service, the value passed by the call that took mu last
    status_checks,  \* table status_checks: sequence of rows, in id order
    sqlite_sequence, \* table sqlite_sequence: the largest id status_checks ever used
    sweep,          \* the CheckAllServices run: its arguments, position, locals and results
    made,           \* the last PingerFactory.Create call: its arguments, results and use
    web             \* the page the handlers close over and the last answer of APIStatus

storeVars == <<incidents, service_state, last, call>>
nmVars == <<notifiers, cooldown, lastAlert, serviceState, mu, cur, lastSent, nmlast>>
alertVars == <<alerts, storage, trueLog, notified>>
lockVars == <<nmcall, lastLock>>
sweepVars == <<status_checks, sqlite_sequence, sweep>>
vars == <<now, storeVars, nmVars, alertVars, lockVars, sweepVars, made, web>>

\* ---------------------------------------------------------------- time
\* A DATETIME column value as the driver hands it back: a layout and an instant.
sqliteTimeFormats == {"RFC3339Nano", "RFC3339", "2006-01-02 15:04:05", "2006-01-02T15:04:05Z"}

\* SQL NULL in a DATETIME column.
NULL == <<"NULL", 0>>

\* time.Time bound as a statement argument and scanned back as a string.
DBTime(t) == <<"RFC3339Nano", t>>

\* parseDBTime: the instant of a stored string, the zero time if no layout parses it.
parseDBTime(s) == IF s[1] \in sqliteTimeFormats THEN s[2] ELSE 0

boolToInt(b) == IF b THEN 1 ELSE 0

\* ---------------------------------------------------------------- Storage statements
\* Rows of incidents of a service that are still open (ended_at IS NULL).
OpenIncidents(inc, serviceURL) ==
    {i \in DOMAIN inc : inc[i].service_url = serviceURL /\ inc[i].ended_at = NULL}

\* Rows of incidents that are resolved (ended_at IS NOT NULL).
ResolvedIncidents(inc) == {i \in DOMAIN inc : inc[i].ended_at # NULL}

\* GetServiceState: (isUp, lastChecked) of the row, zero values when there is none.
GetServiceState(st, serviceURL) ==
    IF serviceURL \notin DOMAIN st
    THEN [isUp |-> FALSE, lastChecked |-> 0]
    ELSE [isUp |-> st[serviceURL].is_up = 1,
          lastChecked |-> parseDBTime(st[serviceURL].last_checked)]

\* GetOngoingIncident: the open incident started last, 0 when there is none.
GetOngoingIncident(inc, serviceURL) ==
    LET open == OpenIncidents(inc, serviceURL)
    IN IF open = {} THEN 0
       ELSE CHOOSE i \in open :
              \A j \in open : parseDBTime(inc[j].started_at) < parseDBTime(inc[i].started_at)
                              \/ (parseDBTime(inc[j].started_at) = parseDBTime(inc[i].started_at) /\ j >= i)

\* Faulty variant of StartIncident: the display name is bound where the message belongs.
StartIncident_NameAsMessage(inc, serviceURL, serviceName, message, t) ==
    Append(inc, [id |-> Len(inc) + 1,
                 service_url |-> serviceURL,
                 service_name |-> serviceName,
                 started_at |-> DBTime(t),
                 ended_at |-> NULL,
                 message |-> serviceName])

\* StartIncident: INSERT INTO incidents, ended_at left NULL.
StartIncident(inc, serviceURL, serviceName, message, t) ==
    Append(inc, [id |-> Len(inc) + 1,
                 service_url |-> serviceURL,
                 service_name |-> serviceName,
                 started_at |-> DBTime(t),
                 ended_at |-> NULL,
                 message |-> message])

\* EndIncident: UPDATE incidents SET ended_at WHERE service_url = ? AND ended_at IS NULL.
EndIncident(inc, serviceURL, t) ==
    [i \in DOMAIN inc |->
        IF inc[i].service_url = serviceURL /\ inc[i].ended_at = NULL
        THEN [inc[i] EXCEPT !.ended_at = DBTime(t)]
        ELSE inc[i]]

\* UpdateServiceState: upsert of is_up and last_checked, last_alert kept.
UpdateServiceState(st, serviceURL, isUp, t) ==
    [u \in DOMAIN st \cup {serviceURL} |->
        IF u # serviceURL THEN st[u]
        ELSE IF serviceURL \in DOMAIN st
             THEN [st[u] EXCEPT !.is_up = boolToInt(isUp), !.last_checked = DBTime(t)]
             ELSE [is_up |-> boolToInt(isUp), last_checked |-> DBTime(t), last_alert |-> NULL]]

\* Faulty variant of TransitionOp: every down observation starts an incident.
TransitionOp_StartOnEveryDown(prevUp, prevChecked, isUp) ==
    IF ~isUp THEN "start"
    ELSE IF prevChecked # 0 /\ ~prevUp THEN "end"
         ELSE "none"

\* Faulty variant of TransitionOp: every up observation after the first ends the incident.
TransitionOp_EndOnEveryUp(prevUp, prevChecked, isUp) ==
    IF prevChecked = 0
    THEN (IF ~isUp THEN "start" ELSE "none")
    ELSE IF prevUp /\ ~isUp THEN "start"
         ELSE IF isUp THEN "end"
              ELSE "none"

\* The incident statement RecordStatusTransition issues after reading the state.
TransitionOp(prevUp, prevChecked, isUp) ==
    IF prevChecked = 0
    THEN (IF ~isUp THEN "start" ELSE "none")
    ELSE IF prevUp /\ ~isUp THEN "start"
         ELSE IF ~prevUp /\ isUp THEN "end"
              ELSE "none"

\* The incidents table after the incident statement op.
ApplyIncidentOp(op, inc, serviceURL, serviceName, message, t) ==
    IF op = "start" THEN StartIncident(inc, serviceURL, serviceName, message, t)
    ELSE IF op = "end" THEN EndIncident(inc, serviceURL, t)
         ELSE inc

\* RecordStatusTransition run alone: the tables and the results it returns, when
\* the statement named by fail returns an error.
RecordStatusTransitionResult(inc, st, serviceURL, serviceName, isUp, message, t, fail) ==
    LET prev == GetServiceState(st, serviceURL)
        op == TransitionOp(prev.isUp, prev.lastChecked, isUp)
        inc2 == ApplyIncidentOp(op, inc, serviceURL, serviceName, message, t)
    IN IF fail = "get" \/ (fail = "incident" /\ op # "none")
       THEN [inc |-> inc, st |-> st, changed |-> FALSE, err |-> TRUE]
       ELSE IF fail = "update"
            THEN [inc |-> inc2, st |-> st, changed |-> op # "none", err |-> TRUE]
            ELSE [inc |-> inc2, st |-> UpdateServiceState(st, serviceURL, isUp, t),
                  changed |-> op # "none", err |-> FALSE]

\* Faulty variant of RecordAlert: one row per service, replaced by the newer alert.
RecordAlert_ReplacePerService(al, serviceURL, alertType, message, t) ==
    LET kept == SelectSeq(al, LAMBDA r : r.service_url # serviceURL)
    IN Append(kept, [id |-> Len(al) + 1,
                     service_url |-> serviceURL,
                     alert_type |-> alertType,
                     message |-> message,
                     sent_at |-> DBTime(t)])

\* RecordAlert: INSERT INTO alerts.
RecordAlert(al, serviceURL, alertType, message, t) ==
    Append(al, [id |-> Len(al) + 1,
                service_url |-> serviceURL,
                alert_type |-> alertType,
                message |-> message,
                sent_at |-> DBTime(t)])

\* ---------------------------------------------------------------- Init
NoCall == [op |-> "none", url |-> "s1", isUp |-> FALSE,
           changed |-> FALSE, err |-> FALSE, first |-> FALSE, hadOpen |-> FALSE]

\* A caller that is in no call.
Idle == [pc |-> "idle", url |-> "s1", isUp |-> FALSE, message |-> "m1",
         prevUp |-> FALSE, prevChecked |-> 0, changed |-> FALSE]

\* No CheckAndNotify call is past the gates.
NoCur == [url |-> "s1", isUp |-> FALSE, alertType |-> "down", timestamp |-> 0,
          results |-> <<>>, same |-> FALSE, prevAlert |-> 0]

\* No CheckAndNotify call has returned.
NoNotify == [op |-> "none", url |-> "s1", isUp |-> FALSE, same |-> FALSE, passed |-> FALSE,
             ret |-> FALSE, ranged |-> 0, results |-> <<>>, prevAlert |-> 0, at |-> 0,
             rows |-> 0, attached |-> FALSE]

\* No CheckAndNotify call has run without overlap.
NoNotified == [op |-> "none", url |-> "s1", isUp |-> FALSE, gate |-> "noedge", ret |-> FALSE,
               results |-> <<>>, rows |-> 0, attached |-> FALSE]

\* A goroutine that is in no CheckAndNotify call; ran: it has returned from one.
NMIdle(ran) == [pc |-> "idle", url |-> "s1", isUp |-> FALSE, exists |-> FALSE,
                prevState |-> FALSE, results |-> <<>>,
                exists0 |-> FALSE, prev0 |-> FALSE, last0 |-> 0, ran |-> ran]

\* No CheckAllServices run has started.
\* outcomes, trace: what the run has found and called so far; errors, checked,
\* lastOutcome: history kept across runs (Store errors logged, probes checked, the
\* last outcome seen per service).
NoSweep == [pc |-> "idle", services |-> <<>>, storage |-> FALSE, notifyManager |-> FALSE,
            maintenanceMsg |-> "", i |-> 0, result |-> [Err |-> "nil", ResponseTime |-> 0],
            up |-> <<>>, degraded |-> <<>>, down |-> <<>>, overall |-> "",
            outcomes |-> <<>>, trace |-> <<>>, errors |-> 0, checked |-> 0,
            lastOutcome |-> <<>>]

\* The zero Service.
NoService == [Type |-> "", URL |-> <<>>, Port |-> "", Regex |-> "", Name |-> "", Command |-> ""]

\* The nil Pinger.
NilPinger == [kind |-> "nil", Service |-> NoService]

\* No factory has been asked for a probe.
NoMade == [factory |-> "none", s |-> NoService, pinger |-> NilPinger, err |-> "nil",
           status |-> "none"]

\* The zero Page.
NoPage == [Title |-> "", Status |-> "", Up |-> <<>>, Degraded |-> <<>>, Down |-> <<>>,
           Time |-> <<>>, MaintenanceMessage |-> "", PastIncidents |-> <<>>]

\* The zero APIResponse.
NoAPIResponse == [overall_status |-> "", services |-> <<>>, updated |-> <<>>,
                  maintenance_message |-> "", past_incidents |-> <<>>]

\* A ResponseWriter nothing was written to.
NoResp == [code |-> 0, contentType |-> "", kind |-> "none", text |-> "",
           json |-> NoAPIResponse]

\* No page was composed, no request answered.
NoWeb == [built |-> "none", services |-> <<>>, results |-> <<>>, page |-> NoPage,
          html |-> [in |-> "", out |-> ""], method |-> "", marshalErr |-> FALSE,
          resp |-> NoResp]

Init ==
    /\ now = 1
    /\ incidents = <<>>
    /\ service_state = <<>>
    /\ last = NoCall
    /\ call = [p \in Callers |-> Idle]
    /\ notifiers = <<>>
    /\ cooldown = 0
    /\ lastAlert = <<>>
    /\ serviceState = <<>>
    /\ mu = "free"
    /\ cur = NoCur
    /\ lastSent = [u \in Services |-> 0]
    /\ nmlast = NoNotify
    /\ alerts = <<>>
    /\ storage = FALSE
    /\ trueLog = <<>>
    /\ notified = NoNotified
    /\ nmcall = [g \in NMCallers |-> NMIdle(FALSE)]
    /\ lastLock = <<>>
    /\ status_checks = <<>>
    /\ sqlite_sequence = 0
    /\ sweep = NoSweep
    /\ made = NoMade
    /\ web = NoWeb

\* ---------------------------------------------------------------- actions
\* The wall clock advances.
Tick ==
    /\ now < MaxClock
    /\ now' = now + 1
    /\ UNCHANGED <<made, web, storeVars, nmVars, alertVars, lockVars, sweepVars>>

\* One caller runs RecordStatusTransition to its return.
RecordStatusTransition(serviceURL, isUp, message, fail) ==
    LET prev == GetServiceState(service_state, serviceURL)
        op == TransitionOp(prev.isUp, prev.lastChecked, isUp)
        r == RecordStatusTransitionResult(incidents, service_state, serviceURL,
                                          DisplayName(serviceURL), isUp, message, now, fail)
    IN /\ op = "start" => Len(incidents) < MaxRows
       /\ fail = "incident" => op # "none"
       /\ incidents' = r.inc
       /\ service_state' = r.st
       /\ last' = [op |-> "RecordStatusTransition", url |-> serviceURL, isUp |-> isUp,
                   changed |-> r.changed, err |-> r.err,
                   first |-> serviceURL \notin DOMAIN service_state,
                   hadOpen |-> OpenIncidents(incidents, serviceURL) # {}]
       /\ UNCHANGED <<now, made, web, call, nmVars, alertVars, lockVars, sweepVars>>

\* ---------------------------------------------------------------- concurrent callers
\* Every statement below is one db.Exec or db.QueryRow: the engine serializes the
\* statements, and the statements of different callers interleave freely.

\* Caller p enters RecordStatusTransition and reads the previous state.
CallGetServiceState(p, serviceURL, isUp, message) ==
    LET prev == GetServiceState(service_state, serviceURL)
    IN /\ call[p].pc = "idle"
       /\ call' = [call EXCEPT ![p] = [pc |-> "read", url |-> serviceURL, isUp |-> isUp,
                                       message |-> message, prevUp |-> prev.isUp,
                                       prevChecked |-> prev.lastChecked, changed |-> FALSE]]
       /\ UNCHANGED <<now, made, web, incidents, service_state, last, nmVars, alertVars, lockVars, sweepVars>>

\* Caller p starts or ends the incident its earlier read calls for.
CallIncident(p) ==
    LET c == call[p]
        op == TransitionOp(c.prevUp, c.prevChecked, c.isUp)
    IN /\ c.pc = "read"
       /\ op = "start" => Len(incidents) < MaxRows
       /\ incidents' = ApplyIncidentOp(op, incidents, c.url, DisplayName(c.url), c.message, now)
       /\ call' = [call EXCEPT ![p].pc = "incident", ![p].changed = (op # "none")]
       /\ UNCHANGED <<now, made, web, service_state, last, nmVars, alertVars, lockVars, sweepVars>>

\* Caller p upserts service_state and returns.
CallUpdateServiceState(p) ==
    LET c == call[p]
    IN /\ c.pc = "incident"
       /\ service_state' = UpdateServiceState(service_state, c.url, c.isUp, now)
       /\ call' = [call EXCEPT ![p] = Idle]
       /\ UNCHANGED <<now, made, web, incidents, last, nmVars, alertVars, lockVars, sweepVars>>

\* What a reader gets from GetServiceState and GetOngoingIncident for one service,
\* called with no statement of another caller between the two.
ReaderView(st, inc, serviceURL) ==
    [exists |-> serviceURL \in DOMAIN st,
     isUp |-> GetServiceState(st, serviceURL).isUp,
     open |-> GetOngoingIncident(inc, serviceURL) # 0]

\* ---------------------------------------------------------------- NotificationManager
\* Faulty variant of Gate: the cooldown comparison is inverted.
Gate_CooldownInverted(exists, prevState, isUp, hasLast, lastTime, t, cd) ==
    IF exists /\ prevState = isUp THEN "noedge"
    ELSE IF hasLast /\ t - lastTime > cd THEN "cooldown"
         ELSE "pass"

\* Faulty variant of Gate: only a change to down counts as an edge worth suppressing.
Gate_EdgeOnlyWhenUp(exists, prevState, isUp, hasLast, lastTime, t, cd) ==
    IF exists /\ prevState = isUp /\ isUp THEN "noedge"
    ELSE IF hasLast /\ t - lastTime < cd THEN "cooldown"
         ELSE "pass"

\* Faulty variant of Gate: a service seen for the first time is no edge.
Gate_FirstIsNoEdge(exists, prevState, isUp, hasLast, lastTime, t, cd) ==
    IF ~exists \/ prevState = isUp THEN "noedge"
    ELSE IF hasLast /\ t - lastTime < cd THEN "cooldown"
         ELSE "pass"

\* The two early returns of CheckAndNotify: no change of state, then cooldown.
Gate(exists, prevState, isUp, hasLast, lastTime, t, cd) ==
    IF exists /\ prevState = isUp THEN "noedge"
    ELSE IF hasLast /\ t - lastTime < cd THEN "cooldown"
         ELSE "pass"

\* The alert type for an observation.
AlertTypeOf(isUp) == IF isUp THEN "recovery" ELSE "down"

\* The message of the alert for an observation.
AlertMessage(isUp, serviceURL) ==
    IF isUp THEN <<"Service recovered: ", serviceURL>> ELSE <<"Service down: ", serviceURL>>

\* The Alert handed to the notifiers.
AlertOf(serviceURL, isUp, t) ==
    [ServiceURL |-> serviceURL, AlertType |-> AlertTypeOf(isUp),
     Message |-> AlertMessage(isUp, serviceURL), Timestamp |-> t]

\* The zero Alert: none was built.
NoAlert == [ServiceURL |-> "", AlertType |-> "", Message |-> <<>>, Timestamp |-> 0]

\* What Notify of a notifier may return.
NotifyOutcomes(kind) == IF kind = "log" THEN {"ok"} ELSE {"ok", "err"}

\* Faulty variant of NextNotifier: the fan-out stops at the first notifier that fails.
NextNotifier_StopOnError(results, ns) ==
    IF Len(results) < Len(ns) /\ (\A i \in DOMAIN results : results[i] = "ok")
    THEN Len(results) + 1
    ELSE 0

\* The notifier the fan-out loop invokes next, 0 when the loop is over.
NextNotifier(results, ns) ==
    IF Len(results) < Len(ns) THEN Len(results) + 1 ELSE 0

\* sent: some notifier returned no error.
Sent(results) == \E i \in DOMAIN results : results[i] = "ok"

\* The last alert instant of a service, 0 when the map has no entry.
LastAlertOf(la, serviceURL) == IF serviceURL \in DOMAIN la THEN la[serviceURL] ELSE 0

\* NewNotificationManager: a fresh manager with the given cooldown takes the place
\* of the old one.
NewNotificationManager(cd) ==
    /\ mu = "free"
    /\ notifiers' = <<>>
    /\ cooldown' = cd
    /\ lastAlert' = <<>>
    /\ serviceState' = <<>>
    /\ lastSent' = [u \in Services |-> 0]
    /\ nmlast' = NoNotify
    /\ storage' = FALSE
    /\ notified' = NoNotified
    /\ lastLock' = <<>>
    /\ UNCHANGED <<now, made, web, storeVars, mu, cur, alerts, trueLog, nmcall, sweepVars>>

\* SetStorage: a Storage, or nil, is attached to the manager.
SetStorage(attached) ==
    /\ mu = "free"
    /\ storage' = attached
    /\ UNCHANGED <<now, made, web, storeVars, nmVars, alerts, trueLog, notified, lockVars, sweepVars>>

\* AddNotifier: append under the lock.
AddNotifier(kind) ==
    /\ mu = "free"
    /\ Len(notifiers) < MaxNotifiers
    /\ notifiers' = Append(notifiers, kind)
    /\ UNCHANGED <<now, made, web, storeVars, cooldown, lastAlert, serviceState, mu, cur, lastSent, nmlast,
                   alertVars, lockVars, sweepVars>>

\* CheckAndNotify up to the fan-out: goroutine g takes the lock, reads the previous
\* state, writes the new one and passes the gates or returns false.
CheckAndNotifyEnter(g, serviceURL, isUp) ==
    LET exists == serviceURL \in DOMAIN serviceState
        prevState == IF exists THEN serviceState[serviceURL] ELSE FALSE
        hasLast == serviceURL \in DOMAIN lastAlert
        gate == Gate(exists, prevState, isUp, hasLast, LastAlertOf(lastAlert, serviceURL),
                     now, cooldown)
    IN /\ mu = "free"
       /\ serviceState' = [u \in DOMAIN serviceState \cup {serviceURL} |->
                              IF u = serviceURL THEN isUp ELSE serviceState[u]]
       /\ IF gate = "pass"
          THEN /\ mu' = g
               /\ cur' = [url |-> serviceURL, isUp |-> isUp, alertType |-> AlertTypeOf(isUp),
                          timestamp |-> now, results |-> <<>>,
                          same |-> exists /\ prevState = isUp,
                          prevAlert |-> LastAlertOf(lastAlert, serviceURL)]
               /\ UNCHANGED nmlast
          ELSE /\ nmlast' = [op |-> "CheckAndNotify", url |-> serviceURL, isUp |-> isUp,
                             same |-> exists /\ prevState = isUp, passed |-> FALSE,
                             ret |-> FALSE, ranged |-> 0, results |-> <<>>,
                             prevAlert |-> LastAlertOf(lastAlert, serviceURL), at |-> now,
                             rows |-> Len(alerts), attached |-> storage]
               /\ UNCHANGED <<mu, cur>>
       /\ UNCHANGED <<now, made, web, storeVars, notifiers, cooldown, lastAlert, lastSent, alertVars, lockVars, sweepVars>>

\* One iteration of the fan-out loop: the next notifier is invoked and answers.
CheckAndNotifyNotify(g, outcome) ==
    LET i == NextNotifier(cur.results, notifiers)
    IN /\ mu = g
       /\ i # 0
       /\ outcome \in NotifyOutcomes(notifiers[i])
       /\ cur' = [cur EXCEPT !.results = Append(@, outcome)]
       /\ UNCHANGED <<now, made, web, storeVars, notifiers, cooldown, lastAlert, serviceState, mu,
                      lastSent, nmlast, alertVars, lockVars, sweepVars>>

\* After the loop: lastAlert is set if some notifier succeeded, the lock is released
\* and sent is returned.
CheckAndNotifyReturn(g) ==
    LET sent == Sent(cur.results)
    IN /\ mu = g
       /\ NextNotifier(cur.results, notifiers) = 0
       /\ lastAlert' = IF sent
                       THEN [u \in DOMAIN lastAlert \cup {cur.url} |->
                                IF u = cur.url THEN now ELSE lastAlert[u]]
                       ELSE lastAlert
       /\ lastSent' = IF sent THEN [lastSent EXCEPT ![cur.url] = cur.timestamp] ELSE lastSent
       /\ nmlast' = [op |-> "CheckAndNotify", url |-> cur.url, isUp |-> cur.isUp,
                     same |-> cur.same, passed |-> TRUE, ret |-> sent,
                     ranged |-> Len(notifiers), results |-> cur.results,
                     prevAlert |-> cur.prevAlert, at |-> now,
                     rows |-> Len(alerts), attached |-> storage]
       /\ alerts' = IF sent /\ storage
                     THEN RecordAlert(alerts, cur.url, cur.alertType,
                                      AlertMessage(cur.isUp, cur.url), cur.timestamp)
                     ELSE alerts
       /\ trueLog' = IF sent /\ storage
                      THEN Append(trueLog, [url |-> cur.url, isUp |-> cur.isUp])
                      ELSE trueLog
       /\ mu' = "free"
       /\ cur' = NoCur
       /\ UNCHANGED <<now, made, web, storeVars, notifiers, cooldown, serviceState, storage, notified,
                      lockVars, sweepVars>>

\* What the notifiers of a manager may return, one outcome per notifier.
FanOutOutcomes(ns) ==
    {o \in [DOMAIN ns -> {"ok", "err"}] : \A i \in DOMAIN ns : o[i] \in NotifyOutcomes(ns[i])}

\* The fan-out loop: the results of the notifiers, in the order they are invoked.
RECURSIVE FanOut(_, _, _)
FanOut(results, ns, outcomes) ==
    LET i == NextNotifier(results, ns)
    IN IF i = 0 THEN results ELSE FanOut(Append(results, outcomes[i]), ns, outcomes)

\* Faulty variant of CheckAndNotifyResult: the new state is written only when an alert
\* went out, so that a suppressed edge is met again by the next call.
CheckAndNotifyResult_StateWhenSent(ss, la, al, ns, cd, attached, serviceURL, isUp, t, outcomes) ==
    LET exists == serviceURL \in DOMAIN ss
        prevState == IF exists THEN ss[serviceURL] ELSE FALSE
        gate == Gate(exists, prevState, isUp, serviceURL \in DOMAIN la,
                     LastAlertOf(la, serviceURL), t, cd)
        ss2 == [u \in DOMAIN ss \cup {serviceURL} |-> IF u = serviceURL THEN isUp ELSE ss[u]]
        results == FanOut(<<>>, ns, outcomes)
        sent == Sent(results)
    IN IF gate # "pass"
       THEN [serviceState |-> ss, lastAlert |-> la, alerts |-> al, ret |-> FALSE,
             results |-> <<>>, gate |-> gate]
       ELSE [serviceState |-> IF sent THEN ss2 ELSE ss,
             lastAlert |-> IF sent
                           THEN [u \in DOMAIN la \cup {serviceURL} |->
                                    IF u = serviceURL THEN t ELSE la[u]]
                           ELSE la,
             alerts |-> IF sent /\ attached
                        THEN RecordAlert(al, serviceURL, AlertTypeOf(isUp),
                                         AlertMessage(isUp, serviceURL), t)
                        ELSE al,
             ret |-> sent, results |-> results, gate |-> gate]

\* CheckAndNotify run alone, from taking the lock to releasing it at instant t: the
\* maps and the alerts table it leaves and the value it returns.
CheckAndNotifyResult(ss, la, al, ns, cd, attached, serviceURL, isUp, t, outcomes) ==
    LET exists == serviceURL \in DOMAIN ss
        prevState == IF exists THEN ss[serviceURL] ELSE FALSE
        gate == Gate(exists, prevState, isUp, serviceURL \in DOMAIN la,
                     LastAlertOf(la, serviceURL), t, cd)
        ss2 == [u \in DOMAIN ss \cup {serviceURL} |-> IF u = serviceURL THEN isUp ELSE ss[u]]
        results == FanOut(<<>>, ns, outcomes)
        sent == Sent(results)
    IN IF gate # "pass"
       THEN [serviceState |-> ss2, lastAlert |-> la, alerts |-> al, ret |-> FALSE,
             results |-> <<>>, gate |-> gate]
       ELSE [serviceState |-> ss2,
             lastAlert |-> IF sent
                           THEN [u \in DOMAIN la \cup {serviceURL} |->
                                    IF u = serviceURL THEN t ELSE la[u]]
                           ELSE la,
             alerts |-> IF sent /\ attached
                        THEN RecordAlert(al, serviceURL, AlertTypeOf(isUp),
                                         AlertMessage(isUp, serviceURL), t)
                        ELSE al,
             ret |-> sent, results |-> results, gate |-> gate]

\* One goroutine runs CheckAndNotify to its return while no other call is in progress.
CheckAndNotify(serviceURL, isUp, outcomes) ==
    \E r \in {CheckAndNotifyResult(serviceState, lastAlert, alerts, notifiers, cooldown,
                                    storage, serviceURL, isUp, now, outcomes)} :
       /\ mu = "free"
       /\ r.gate # "pass" => \A i \in DOMAIN outcomes : outcomes[i] = "ok"
       /\ r.alerts # alerts => Len(alerts) < MaxRows
       /\ serviceState' = r.serviceState
       /\ lastAlert' = r.lastAlert
       /\ alerts' = r.alerts
       /\ trueLog' = IF r.ret /\ storage
                      THEN Append(trueLog, [url |-> serviceURL, isUp |-> isUp])
                      ELSE trueLog
       /\ notified' = [op |-> "CheckAndNotify", url |-> serviceURL, isUp |-> isUp,
                       gate |-> r.gate, ret |-> r.ret, results |-> r.results,
                       rows |-> Len(alerts), attached |-> storage,
                       alert |-> IF r.gate = "pass" THEN AlertOf(serviceURL, isUp, now)
                                 ELSE NoAlert]
       /\ UNCHANGED <<now, made, web, storeVars, notifiers, cooldown, mu, cur, lastSent, nmlast, storage,
                      lockVars, sweepVars>>

\* ---------------------------------------------------------------- CheckAndNotify, statement by statement
\* Faulty variant of Lockable: the lock excludes nobody.
Lockable_Always(m) == TRUE

\* nm.mu.Lock() returns only when no goroutine holds the lock.
Lockable(m) == m = "free"

\* Goroutine g calls CheckAndNotify and gets the lock.
NMLock(g, serviceURL, isUp) ==
    /\ nmcall[g].pc = "idle"
    /\ Lockable(mu)
    /\ mu' = g
    /\ nmcall' = [nmcall EXCEPT ![g] =
                     [pc |-> "locked", url |-> serviceURL, isUp |-> isUp,
                      exists |-> FALSE, prevState |-> FALSE, results |-> <<>>,
                      exists0 |-> serviceURL \in DOMAIN serviceState,
                      prev0 |-> IF serviceURL \in DOMAIN serviceState
                                THEN serviceState[serviceURL] ELSE FALSE,
                      last0 |-> LastAlertOf(lastAlert, serviceURL),
                      ran |-> nmcall[g].ran]]
    /\ lastLock' = [u \in DOMAIN lastLock \cup {serviceURL} |->
                       IF u = serviceURL THEN isUp ELSE lastLock[u]]
    /\ UNCHANGED <<now, made, web, storeVars, notifiers, cooldown, lastAlert, serviceState, cur,
                   lastSent, nmlast, alertVars, sweepVars>>

\* prevState, exists := nm.serviceState[serviceURL]
NMRead(g) ==
    LET c == nmcall[g]
    IN /\ c.pc = "locked"
       /\ nmcall' = [nmcall EXCEPT ![g].pc = "read",
                                   ![g].exists = c.url \in DOMAIN serviceState,
                                   ![g].prevState = IF c.url \in DOMAIN serviceState
                                                    THEN serviceState[c.url] ELSE FALSE]
       /\ UNCHANGED <<now, made, web, storeVars, nmVars, alertVars, lastLock, sweepVars>>

\* nm.serviceState[serviceURL] = isUp
NMWrite(g) ==
    LET c == nmcall[g]
    IN /\ c.pc = "read"
       /\ serviceState' = [u \in DOMAIN serviceState \cup {c.url} |->
                              IF u = c.url THEN c.isUp ELSE serviceState[u]]
       /\ nmcall' = [nmcall EXCEPT ![g].pc = "written"]
       /\ UNCHANGED <<now, made, web, storeVars, notifiers, cooldown, lastAlert, mu, cur, lastSent, nmlast,
                      alertVars, lastLock, sweepVars>>

\* The two early returns; the deferred Unlock runs when one is taken.
NMGate(g) ==
    LET c == nmcall[g]
        gate == Gate(c.exists, c.prevState, c.isUp, c.url \in DOMAIN lastAlert,
                     LastAlertOf(lastAlert, c.url), now, cooldown)
    IN /\ c.pc = "written"
       /\ IF gate = "pass"
          THEN /\ nmcall' = [nmcall EXCEPT ![g].pc = "notify"]
               /\ UNCHANGED mu
          ELSE /\ nmcall' = [nmcall EXCEPT ![g] = NMIdle(TRUE)]
               /\ mu' = "free"
       /\ UNCHANGED <<now, made, web, storeVars, notifiers, cooldown, lastAlert, serviceState, cur,
                      lastSent, nmlast, alertVars, lastLock, sweepVars>>

\* One iteration of the fan-out loop.
NMNotify(g, outcome) ==
    LET c == nmcall[g]
        i == NextNotifier(c.results, notifiers)
    IN /\ c.pc = "notify"
       /\ i # 0
       /\ outcome \in NotifyOutcomes(notifiers[i])
       /\ nmcall' = [nmcall EXCEPT ![g].results = Append(@, outcome)]
       /\ UNCHANGED <<now, made, web, storeVars, nmVars, alertVars, lastLock, sweepVars>>

\* After the loop: lastAlert is set if some notifier succeeded; the deferred Unlock runs.
NMReturn(g) ==
    LET c == nmcall[g]
    IN /\ c.pc = "notify"
       /\ NextNotifier(c.results, notifiers) = 0
       /\ lastAlert' = IF Sent(c.results)
                       THEN [u \in DOMAIN lastAlert \cup {c.url} |->
                                IF u = c.url THEN now ELSE lastAlert[u]]
                       ELSE lastAlert
       /\ mu' = "free"
       /\ nmcall' = [nmcall EXCEPT ![g] = NMIdle(TRUE)]
       /\ UNCHANGED <<now, made, web, storeVars, notifiers, cooldown, serviceState, cur, lastSent, nmlast,
                      alertVars, lastLock, sweepVars>>

\* ---------------------------------------------------------------- CheckAllServices
\* Service.DisplayName(): the name, else the URL, else the executable of the command.
SvcDisplayName(svc) ==
    IF svc.Name # "" THEN svc.Name
    ELSE IF svc.URL # "" THEN svc.URL
         ELSE IF svc.Command # <<>> THEN svc.Command[1]
              ELSE "unknown"

\* The error a check returns for what it finds.
ErrOf(outcome) ==
    IF outcome = "up" THEN "nil"
    ELSE IF outcome = "degraded" THEN "ErrServiceDegraded"
         ELSE "ErrServiceUnavailable"

IsDegraded(err) == err = "ErrServiceDegraded"

IsOperational(err) == err = "nil" \/ IsDegraded(err)

\* errMsg: the text of the error, empty for none.
ErrMsg(err) == IF err = "nil" THEN "" ELSE err

\* RecordStatus: INSERT INTO status_checks.
RecordStatus(sc, seq, serviceURL, isUp, message, t) ==
    Append(sc, [id |-> seq + 1,
                service_url |-> serviceURL,
                is_up |-> boolToInt(isUp),
                checked_at |-> DBTime(t),
                message |-> message])

\* Faulty variant of DetermineOverallStatus: degraded is tested before down.
DetermineOverallStatus_DegradedFirst(maintenanceMsg, degraded, down) ==
    IF maintenanceMsg # "" THEN "maintenance"
    ELSE IF DOMAIN degraded # {} THEN "degraded"
         ELSE IF DOMAIN down # {} THEN "danger"
              ELSE "success"

\* DetermineOverallStatus: the switch over the message and the two maps.
DetermineOverallStatus(maintenanceMsg, degraded, down) ==
    IF maintenanceMsg # "" THEN "maintenance"
    ELSE IF DOMAIN down # {} THEN "danger"
         ELSE IF DOMAIN degraded # {} THEN "degraded"
              ELSE "success"

\* The lists of probes a configuration may yield: each configured service once.
ServiceLists ==
    {l \in UNION {[1..n -> Pingers] : n \in 0..MaxProbes} :
        \A j, k \in DOMAIN l : l[j] = l[k] => j = k}

\* Faulty variant of MaintenanceUp: the list stops one short.
MaintenanceUp_DropsLast(services) ==
    [k \in 1..(Len(services) - 1) |->
        [Name |-> SvcDisplayName(services[k]), ResponseTime |-> 0]]

\* The up bucket of maintenance mode: every service, response time 0.
MaintenanceUp(services) ==
    [k \in 1..Len(services) |->
        [Name |-> SvcDisplayName(services[k]), ResponseTime |-> 0]]

\* m[key] = value on a Go map.
MapSet(m, key, value) ==
    [k \in DOMAIN m \cup {key} |-> IF k = key THEN value ELSE m[k]]

\* Faulty variant of AfterStep: the status check is recorded before the transition.
AfterStep_StatusFirst(pc, storage_, err) ==
    IF pc = "check" THEN (IF storage_ THEN "status" ELSE "place")
    ELSE IF pc = "status" THEN "transition"
         ELSE "place"

\* Faulty variant of AfterStep: a Store error ends the Store calls of the probe.
AfterStep_SkipOnError(pc, storage_, err) ==
    IF err THEN "place"
    ELSE IF pc = "check" THEN (IF storage_ THEN "transition" ELSE "place")
         ELSE IF pc = "transition" THEN "status"
              ELSE "place"

\* The statement of the loop body that follows the one at pc; err: the Store call at
\* pc returned an error, which is logged and changes nothing.
AfterStep(pc, storage_, err) ==
    IF pc = "check" THEN (IF storage_ THEN "transition" ELSE "place")
    ELSE IF pc = "transition" THEN "status"
         ELSE "place"

\* The caller gets the three buckets and computes the overall status.
SweepReturned(sw) ==
    [sw EXCEPT !.pc = "done",
               !.overall = DetermineOverallStatus(sw.maintenanceMsg, sw.degraded, sw.down)]

\* Faulty variant of CheckAllServices: the services are checked in maintenance mode too.
CheckAllServices_ChecksInMaintenance(services, storage_, notifyManager, maintenanceMsg) ==
    LET checks == services # <<>>
        sw == [NoSweep EXCEPT !.services = services, !.storage = storage_,
                              !.notifyManager = notifyManager,
                              !.maintenanceMsg = maintenanceMsg,
                              !.checked = sweep.checked + (IF checks THEN 0 ELSE 1),
                              !.errors = sweep.errors,
                              !.lastOutcome = sweep.lastOutcome]
    IN /\ sweep.pc \in {"idle", "done"}
       /\ mu = "free"
       /\ sweep.checked + (IF checks THEN Len(services) ELSE 1) <= MaxChecks
       /\ storage_ => Len(incidents) + Len(services) <= MaxRows
       /\ sweep' = IF services = <<>>
                   THEN SweepReturned(sw)
                   ELSE [sw EXCEPT !.pc = "check", !.i = 1]
       /\ UNCHANGED <<now, made, web, storeVars, nmVars, alertVars, lockVars, status_checks, sqlite_sequence>>

\* CheckAllServices is called: in maintenance mode it returns at once, otherwise
\* it enters the loop.
CheckAllServices(services, storage_, notifyManager, maintenanceMsg) ==
    LET checks == maintenanceMsg = "" /\ services # <<>>
        sw == [NoSweep EXCEPT !.services = services, !.storage = storage_,
                              !.notifyManager = notifyManager,
                              !.maintenanceMsg = maintenanceMsg,
                              !.checked = sweep.checked + (IF checks THEN 0 ELSE 1),
                              !.errors = sweep.errors,
                              !.lastOutcome = sweep.lastOutcome]
    IN /\ sweep.pc \in {"idle", "done"}
       /\ mu = "free"
       /\ sweep.checked + (IF checks THEN Len(services) ELSE 1) <= MaxChecks
       /\ (storage_ /\ maintenanceMsg = "") => Len(incidents) + Len(services) <= MaxRows
       /\ sweep' = IF maintenanceMsg # ""
                   THEN SweepReturned([sw EXCEPT !.up = MaintenanceUp(services)])
                   ELSE IF services = <<>>
                        THEN SweepReturned(sw)
                        ELSE [sw EXCEPT !.pc = "check", !.i = 1]
       /\ UNCHANGED <<now, made, web, storeVars, nmVars, alertVars, lockVars, status_checks, sqlite_sequence>>

\* result := pinger.StatusWithTiming()
SweepCheck(outcome, responseTime) ==
    /\ sweep.pc = "check"
    /\ sweep' = [sweep EXCEPT
                    !.pc = AfterStep("check", sweep.storage, FALSE),
                    !.result = [Err |-> ErrOf(outcome), ResponseTime |-> responseTime],
                    !.outcomes = Append(@, outcome),
                    !.checked = @ + 1,
                    !.trace = Append(@, [op |-> "check", i |-> sweep.i,
                                         url |-> sweep.services[sweep.i].URL,
                                         isUp |-> outcome = "up"])]
    /\ UNCHANGED <<now, made, web, storeVars, nmVars, alertVars, lockVars, status_checks, sqlite_sequence>>

\* storage.RecordStatusTransition(svc.URL, displayName, isUp, errMsg); an error is logged.
SweepTransition(fail) ==
    LET svc == sweep.services[sweep.i]
        isUp == IsOperational(sweep.result.Err)
    IN /\ sweep.pc = "transition"
       /\ \E r \in {RecordStatusTransitionResult(incidents, service_state, svc.URL,
                       SvcDisplayName(svc), isUp, ErrMsg(sweep.result.Err), now, fail)} :
          /\ fail = "incident" =>
                TransitionOp(GetServiceState(service_state, svc.URL).isUp,
                             GetServiceState(service_state, svc.URL).lastChecked, isUp) # "none"
          /\ incidents' = r.inc
          /\ service_state' = r.st
          /\ sweep' = [sweep EXCEPT
                          !.pc = AfterStep("transition", sweep.storage, r.err),
                          !.errors = IF r.err THEN @ + 1 ELSE @,
                          !.trace = Append(@, [op |-> "RecordStatusTransition", i |-> sweep.i,
                                               url |-> svc.URL, isUp |-> isUp])]
          /\ UNCHANGED <<now, made, web, last, call, nmVars, alertVars, lockVars, status_checks, sqlite_sequence>>

\* storage.RecordStatus(svc.URL, isUp, errMsg); an error is logged.
SweepStatus(failed) ==
    LET svc == sweep.services[sweep.i]
        isUp == IsOperational(sweep.result.Err)
    IN /\ sweep.pc = "status"
       /\ status_checks' = IF failed THEN status_checks
                           ELSE RecordStatus(status_checks, sqlite_sequence, svc.URL, isUp,
                                             ErrMsg(sweep.result.Err), now)
       /\ sqlite_sequence' = IF failed THEN sqlite_sequence ELSE sqlite_sequence + 1
       /\ sweep' = [sweep EXCEPT
                       !.pc = AfterStep("status", sweep.storage, failed),
                       !.errors = IF failed THEN @ + 1 ELSE @,
                       !.trace = Append(@, [op |-> "RecordStatus", i |-> sweep.i,
                                            url |-> svc.URL, isUp |-> isUp])]
       /\ UNCHANGED <<now, made, web, storeVars, nmVars, alertVars, lockVars>>

\* The service is put in its bucket and the manager, if any, is told; then the loop
\* goes on to the next probe or the function returns.
SweepPlace(outcomes) ==
    LET svc == sweep.services[sweep.i]
        err == sweep.result.Err
        displayName == SvcDisplayName(svc)
        info == [Minutes |-> defaultOutageMinutes, ResponseTime |-> sweep.result.ResponseTime]
        isUp == IF err # "nil" THEN (IF IsDegraded(err) THEN TRUE ELSE FALSE) ELSE TRUE
        placed == [sweep EXCEPT
                     !.up = IF err = "nil"
                            THEN Append(@, [Name |-> displayName,
                                            ResponseTime |-> sweep.result.ResponseTime])
                            ELSE @,
                     !.degraded = IF err # "nil" /\ IsDegraded(err)
                                  THEN MapSet(@, displayName, info) ELSE @,
                     !.down = IF err # "nil" /\ ~IsDegraded(err)
                              THEN MapSet(@, displayName, info) ELSE @]
    IN /\ sweep.pc = "place"
       /\ \E r \in {CheckAndNotifyResult(serviceState, lastAlert, alerts, notifiers, cooldown,
                                       storage, svc.URL, isUp, now, outcomes)} :
          /\ mu = "free"
          /\ (~sweep.notifyManager \/ r.gate # "pass") =>
                \A k \in DOMAIN outcomes : outcomes[k] = "ok"
          /\ IF sweep.notifyManager
             THEN /\ serviceState' = r.serviceState
                  /\ lastAlert' = r.lastAlert
                  /\ alerts' = r.alerts
                  /\ trueLog' = IF r.ret /\ storage
                                 THEN Append(trueLog, [url |-> svc.URL, isUp |-> isUp])
                                 ELSE trueLog
                  /\ notified' = [op |-> "CheckAndNotify", url |-> svc.URL, isUp |-> isUp,
                                  gate |-> r.gate, ret |-> r.ret, results |-> r.results,
                                  rows |-> Len(alerts), attached |-> storage]
             ELSE UNCHANGED <<serviceState, lastAlert, alerts, trueLog, notified>>
          /\ LET traced == [placed EXCEPT
                               !.trace = IF sweep.notifyManager
                                         THEN Append(@, [op |-> "CheckAndNotify", i |-> sweep.i,
                                                         url |-> svc.URL, isUp |-> isUp])
                                         ELSE @]
                 seen == [traced EXCEPT
                             !.lastOutcome = MapSet(@, svc.URL, sweep.outcomes[sweep.i])]
             IN sweep' = IF sweep.i < Len(sweep.services)
                         THEN [seen EXCEPT !.pc = "check", !.i = sweep.i + 1]
                         ELSE SweepReturned(seen)
          /\ UNCHANGED <<now, made, web, storeVars, notifiers, cooldown, mu, cur, lastSent, nmlast, storage,
                         lockVars, status_checks, sqlite_sequence>>

\* ---------------------------------------------------------------- factories
\* len(host): the number of characters of an address.
RECURSIVE HostLen(_)
HostLen(host) == IF host = <<>> THEN 0 ELSE host[1].n + HostLen(Tail(host))

\* strings.Split(host, sep): the parts between the separators, empty parts included.
RECURSIVE Split(_, _)
Split(host, sep) ==
    IF host = <<>> THEN << <<>> >>
    ELSE LET rest == Split(Tail(host), sep)
         IN IF host[1].c = sep
            THEN << <<>> >> \o [k \in 1..(host[1].n - 1) |-> <<>>] \o rest
            ELSE << <<host[1]>> \o rest[1] >> \o Tail(rest)

\* The index in the part of the first character of its k-th run.
RunStart(part, k) == HostLen(SubSeq(part, 1, k - 1))

IsLetter(c) == c \in {"a", "z"}
IsDigit(c) == c \in {"1"}
IsHexDigit(c) == c \in {"a", "1"}

\* The decimal value of a part made of digits (the digits of the model are all 1).
RECURSIVE DecimalValue(_, _)
DecimalValue(part, acc) ==
    IF part = <<>> THEN acc
    ELSE IF part[1].n = 1 THEN DecimalValue(Tail(part), 10 * acc + 1)
         ELSE DecimalValue(<<[part[1] EXCEPT !.n = @ - 1]>> \o Tail(part), 10 * acc + 1)

\* A field of a dotted-decimal IPv4 literal: one to three digits, at most 255.
IsIPv4Field(part) ==
    /\ HostLen(part) \in 1..3
    /\ \A k \in DOMAIN part : IsDigit(part[k].c)
    /\ DecimalValue(part, 0) <= 255

\* net.ParseIP, dotted-decimal form: four fields.
ParseIPv4(host) ==
    LET fields == Split(host, ".")
    IN Len(fields) = 4 /\ \A k \in DOMAIN fields : IsIPv4Field(fields[k])

\* A group of an IPv6 literal: one to four hex digits.
IsIPv6Group(part) ==
    HostLen(part) \in 1..4 /\ \A k \in DOMAIN part : IsHexDigit(part[k].c)

\* net.ParseIP, IPv6 form: groups between colons, at most one "::" that stands for
\* one group or more, the last field possibly an IPv4 literal worth two groups.
ParseIPv6(host) ==
    LET fields == Split(host, ":")
        n == Len(fields)
        empty == {k \in 1..n : fields[k] = <<>>}
        tailIPv4 == fields[n] # <<>> /\ ParseIPv4(fields[n])
        groups == (n - Cardinality(empty)) + (IF tailIPv4 THEN 1 ELSE 0)
    IN /\ n >= 3
       /\ \A k \in 1..n :
             k \notin empty => (IsIPv6Group(fields[k]) \/ (k = n /\ tailIPv4))
       /\ \/ empty = {} /\ groups = 8
          \/ /\ groups <= 7
             /\ \/ \E k \in 2..(n - 1) : empty = {k}
                \/ empty = {1, 2}
                \/ empty = {n - 1, n}
                \/ n = 3 /\ empty = {1, 2, 3}

\* net.ParseIP(host) != nil
ParseIP(host) == ParseIPv4(host) \/ ParseIPv6(host)

\* The test of one character of a part: alphanumeric, or a hyphen that is neither
\* the first nor the last character; i is its index, from 0.
ValidLabelChar(c, i, partLen) ==
    IsLetter(c) \/ IsDigit(c) \/ (c = "-" /\ i > 0 /\ i < partLen - 1)

\* Faulty variant of ValidLabel: a hyphen may stand anywhere in a part.
ValidLabel_HyphenAnywhere(part) ==
    /\ ~(HostLen(part) = 0 \/ HostLen(part) > 63)
    /\ \A k \in DOMAIN part : IsLetter(part[k].c) \/ IsDigit(part[k].c) \/ part[k].c = "-"

\* The loop body of isValidHostname for one part of the host.
ValidLabel(part) ==
    /\ ~(HostLen(part) = 0 \/ HostLen(part) > 63)
    /\ \A k \in DOMAIN part :
          /\ ValidLabelChar(part[k].c, RunStart(part, k), HostLen(part))
          /\ ValidLabelChar(part[k].c, RunStart(part, k) + part[k].n - 1, HostLen(part))

\* isValidHostname: an IP literal, or a host name of valid length and parts.
isValidHostname(host) ==
    IF ParseIP(host) THEN TRUE
    ELSE IF HostLen(host) = 0 \/ HostLen(host) > 253 THEN FALSE
         ELSE \A k \in DOMAIN Split(host, ".") : ValidLabel(Split(host, ".")[k])

\* parseCommand: the fields of the command line.
parseCommand(command) == IF command \in {"", " "} THEN <<>> ELSE <<command>>

\* The field a factory tests for emptiness after the type, and the error it returns
\* when the field is empty; <<>> for a factory that tests none.
RequiredByFactory(type) ==
    IF type = "tcp" THEN <<"Port", "commands: port is required for tcp check">>
    ELSE IF type = "icmp" THEN <<"URL", "commands: host is required for icmp check">>
         ELSE IF type = "script"
              THEN <<"Command", "commands: command is required for script check">>
              ELSE <<>>

\* s.Field == "", for the field of the given name.
IsUnset(s, field) == IF field = "URL" THEN s.URL = <<>> ELSE s[field] = ""

\* The Service a factory copies into the probe it returns.
ProbeService(type, s) ==
    IF type = "ping" THEN [NoService EXCEPT !.URL = s.URL, !.Name = s.Name]
    ELSE IF type = "grep"
         THEN [NoService EXCEPT !.URL = s.URL, !.Regex = s.Regex, !.Name = s.Name]
         ELSE IF type = "tcp"
              THEN [NoService EXCEPT !.URL = s.URL, !.Port = s.Port, !.Name = s.Name]
              ELSE IF type = "icmp"
                   THEN [NoService EXCEPT !.URL = s.URL, !.Name = s.Name]
                   ELSE [NoService EXCEPT !.Command = s.Command, !.Name = s.Name]

\* Create of the factory of the given type: (Pinger, error).
FactoryCreate(type, s) ==
    LET required == RequiredByFactory(type)
    IN IF s.Type # type
       THEN [pinger |-> NilPinger, err |-> "commands: invalid type for create"]
       ELSE IF required # <<>> /\ IsUnset(s, required[1])
            THEN [pinger |-> NilPinger, err |-> required[2]]
            ELSE IF type = "icmp" /\ ~isValidHostname(s.URL)
                 THEN [pinger |-> NilPinger, err |-> "commands: invalid hostname for icmp check"]
                 ELSE [pinger |-> [kind |-> type, Service |-> ProbeService(type, s)],
                       err |-> "nil"]

\* What Status of a probe may return.
StatusOutcomes(pinger) ==
    IF pinger.kind = "script"
    THEN (IF parseCommand(pinger.Service.Command) = <<>>
          THEN {"ErrCommandRequired"}
          ELSE {"nil", "ErrServiceDegraded", "ErrServiceUnavailable"})
    ELSE IF pinger.kind = "grep"
         THEN (IF pinger.Service.Regex = ""
               THEN {"nil", "ErrServiceUnavailable"}
               ELSE {"nil", "ErrServiceUnavailable", "ErrRegexNotFound"})
         ELSE {"nil", "ErrServiceUnavailable"}

\* A factory is asked for the probe of a configured service.
Create(type, s) ==
    /\ made' = [factory |-> type, s |-> s, pinger |-> FactoryCreate(type, s).pinger,
                err |-> FactoryCreate(type, s).err, status |-> "none"]
    /\ UNCHANGED <<now, web, storeVars, nmVars, alertVars, lockVars, sweepVars>>

\* The probe a factory returned is checked.
Status(err) ==
    /\ made.pinger # NilPinger
    /\ made.status = "none"
    /\ err \in StatusOutcomes(made.pinger)
    /\ made' = [made EXCEPT !.status = err]
    /\ UNCHANGED <<now, web, storeVars, nmVars, alertVars, lockVars, sweepVars>>

\* ---------------------------------------------------------------- resolved incidents
\* The wall clock advances while incidents come and go.
Elapse ==
    /\ now < MaxInstant
    /\ now' = now + 1
    /\ UNCHANGED <<made, web, storeVars, nmVars, alertVars, lockVars, sweepVars>>

\* A service goes down: StartIncident is called for it.
ServiceGoesDown(serviceURL) ==
    /\ OpenIncidents(incidents, serviceURL) = {}
    /\ Len(incidents) < MaxIncidents
    /\ incidents' = StartIncident(incidents, serviceURL, DisplayName(serviceURL), "m1", now)
    /\ last' = [NoCall EXCEPT !.op = "StartIncident", !.url = serviceURL]
    /\ UNCHANGED <<now, made, web, service_state, call, nmVars, alertVars, lockVars, sweepVars>>

\* A service comes back: EndIncident is called for it.
ServiceComesBack(serviceURL) ==
    /\ OpenIncidents(incidents, serviceURL) # {}
    /\ incidents' = EndIncident(incidents, serviceURL, now)
    /\ last' = [NoCall EXCEPT !.op = "EndIncident", !.url = serviceURL]
    /\ UNCHANGED <<now, made, web, service_state, call, nmVars, alertVars, lockVars, sweepVars>>

\* The orders in which ORDER BY ended_at DESC may hand out the rows R of inc: rows
\* with equal ended_at come in any order.
RECURSIVE OrdersByEndedAtDesc(_, _)
OrdersByEndedAtDesc(inc, R) ==
    IF R = {} THEN {<<>>}
    ELSE LET latest == {m \in R : \A r \in R : parseDBTime(inc[r].ended_at)
                                                   <= parseDBTime(inc[m].ended_at)}
         IN UNION {{<<m>> \o t : t \in OrdersByEndedAtDesc(inc, R \ {m})} : m \in latest}

\* The orders in which the query may hand out the resolved rows.
ResolvedOrders(inc) == OrdersByEndedAtDesc(inc, ResolvedIncidents(inc))

\* rows.Scan of one row of a resolved incident into an Incident.
ScanResolved(row) ==
    [ID |-> row.id,
     ServiceURL |-> row.service_url,
     StartedAt |-> parseDBTime(row.started_at),
     EndedAt |-> parseDBTime(row.ended_at),
     Duration |-> parseDBTime(row.ended_at) - parseDBTime(row.started_at),
     IsOngoing |-> FALSE]

\* The loop over the fetched rows: short incidents are skipped, the loop stops when
\* limit incidents are collected.
RECURSIVE CollectResolved(_, _, _, _)
CollectResolved(rows, limit, minDuration, collected) ==
    IF rows = <<>> THEN collected
    ELSE LET incident == ScanResolved(rows[1])
         IN IF minDuration > 0 /\ incident.Duration < minDuration
            THEN CollectResolved(Tail(rows), limit, minDuration, collected)
            ELSE IF Len(collected) + 1 >= limit
                 THEN Append(collected, incident)
                 ELSE CollectResolved(Tail(rows), limit, minDuration, Append(collected, incident))

\* fetchLimit: three times the limit when short incidents are to be filtered out.
FetchLimit(limit, minDuration) == IF minDuration > 0 THEN limit * 3 ELSE limit

\* GetRecentResolvedIncidents on the table inc, the query handing out the resolved
\* rows in the order o.
GetRecentResolvedIncidentsResult(inc, o, limit, minDuration) ==
    LET fetchLimit == FetchLimit(limit, minDuration)
        n == IF fetchLimit < Len(o) THEN fetchLimit ELSE Len(o)
        fetched == [k \in 1..n |-> inc[o[k]]]
    IN CollectResolved(fetched, limit, minDuration, <<>>)

\* GetRecentResolvedIncidents(limit, minDuration) is called and returns.
GetRecentResolvedIncidents(limit, minDuration) ==
    /\ \E o \in ResolvedOrders(incidents) :
          last' = [op |-> "GetRecentResolvedIncidents", limit |-> limit,
                   minDuration |-> minDuration,
                   rows |-> GetRecentResolvedIncidentsResult(incidents, o, limit, minDuration)]
    /\ UNCHANGED <<now, made, web, incidents, service_state, call, nmVars, alertVars, lockVars, sweepVars>>

NextStore ==
    \/ Tick
    \/ \E serviceURL \in Services, isUp \in BOOLEAN, message \in Messages, fail \in Failures :
          RecordStatusTransition(serviceURL, isUp, message, fail)

\* Sequential use of the Storage: calls do not overlap.
SpecStore == Init /\ [][NextStore]_vars

NextConc ==
    \/ Tick
    \/ \E p \in Callers, serviceURL \in Services, isUp \in BOOLEAN, message \in Messages :
          CallGetServiceState(p, serviceURL, isUp, message)
    \/ \E p \in Callers : CallIncident(p)
    \/ \E p \in Callers : CallUpdateServiceState(p)

\* Concurrent use of the Storage; every statement succeeds.
SpecConc == Init /\ [][NextConc]_vars

NextStoreOK ==
    \/ Tick
    \/ \E serviceURL \in Services, isUp \in BOOLEAN, message \in Messages :
          RecordStatusTransition(serviceURL, isUp, message, "none")

\* Sequential use of the Storage in which every call returns without error.
SpecStoreOK == Init /\ [][NextStoreOK]_vars

NextNotify ==
    \/ Tick
    \/ \E cd \in Cooldowns : NewNotificationManager(cd)
    \/ \E kind \in NotifierKinds : AddNotifier(kind)
    \/ \E g \in NMCallers, serviceURL \in Services, isUp \in BOOLEAN :
          CheckAndNotifyEnter(g, serviceURL, isUp)
    \/ \E g \in NMCallers, outcome \in {"ok", "err"} : CheckAndNotifyNotify(g, outcome)
    \/ \E g \in NMCallers : CheckAndNotifyReturn(g)

\* Concurrent use of one NotificationManager.
SpecNotify == Init /\ [][NextNotify]_vars

NextNotifyStore ==
    \/ Tick
    \/ \E cd \in Cooldowns : serviceState = <<>> /\ NewNotificationManager(cd)
    \/ \E attached \in BOOLEAN : serviceState = <<>> /\ SetStorage(attached)
    \/ AddNotifier("webhook")
    \/ \E outcomes \in FanOutOutcomes(notifiers), serviceURL \in Services, isUp \in BOOLEAN :
          CheckAndNotify(serviceURL, isUp, outcomes)

\* Managers used by one goroutine at a time, with a Storage that outlives them
\* attached or not.
SpecNotifyStore == Init /\ [][NextNotifyStore]_vars

NextNotifyLock ==
    \/ Tick
    \/ \E cd \in Cooldowns : NewNotificationManager(cd)
    \/ \E kind \in NotifierKinds : AddNotifier(kind)
    \/ \E g \in NMCallers, serviceURL \in Services, isUp \in BOOLEAN : NMLock(g, serviceURL, isUp)
    \/ \E g \in NMCallers : NMRead(g)
    \/ \E g \in NMCallers : NMWrite(g)
    \/ \E g \in NMCallers : NMGate(g)
    \/ \E g \in NMCallers, outcome \in {"ok", "err"} : NMNotify(g, outcome)
    \/ \E g \in NMCallers : NMReturn(g)

\* Goroutines call CheckAndNotify of one manager at any time; their statements
\* interleave as far as the lock allows.
SpecNotifyLock == Init /\ [][NextNotifyLock]_vars

NextSweep ==
    \/ sweep.pc = "idle" /\ notifiers = <<>> /\ AddNotifier("webhook")
    \/ sweep.pc = "idle" /\ ~storage /\ SetStorage(TRUE)
    \/ \E services \in ServiceLists, storage_ \in BOOLEAN, notifyManager \in BOOLEAN,
          maintenanceMsg \in MaintenanceMsgs :
          /\ sweep.pc = "done" => /\ services = sweep.services
                                  /\ storage_ = sweep.storage
                                  /\ notifyManager = sweep.notifyManager
          /\ CheckAllServices(services, storage_, notifyManager, maintenanceMsg)
    \/ \E outcome \in Outcomes, responseTime \in ResponseTimes : SweepCheck(outcome, responseTime)
    \/ \E fail \in Failures : SweepTransition(fail)
    \/ \E failed \in BOOLEAN : SweepStatus(failed)
    \/ \E outcomes \in FanOutOutcomes(notifiers) : SweepPlace(outcomes)

\* One process: its probes, its Storage and its NotificationManager are set up once,
\* then sweeps run one after another, the maintenance message read anew for each;
\* Store calls may return errors.
SpecSweep == Init /\ [][NextSweep]_vars

NextRecent ==
    \/ Elapse
    \/ \E serviceURL \in Services : ServiceGoesDown(serviceURL)
    \/ \E serviceURL \in Services : ServiceComesBack(serviceURL)
    \/ \E limit \in Limits, minDuration \in MinDurations :
          GetRecentResolvedIncidents(limit, minDuration)

\* Incidents of the services start and end as time goes by, and the resolved ones
\* are queried at any time.
SpecRecent == Init /\ [][NextRecent]_vars

NextFactory ==
    \/ made.factory = "none" /\ \E type \in FactoryTypes, s \in ConfiguredServices :
                                   Create(type, s)
    \/ \E err \in {"nil", "ErrServiceDegraded", "ErrServiceUnavailable", "ErrRegexNotFound",
                    "ErrCommandRequired"} : Status(err)

\* A probe is made from a service of a configuration by one of the factories, and
\* checked when made; Create keeps no state, so one call per behaviour shows them all.
SpecFactory == Init /\ [][NextFactory]_vars

\* ---------------------------------------------------------------- claims: Storage
\* The number of open incidents of a service.
OpenCount(serviceURL) == Cardinality(OpenIncidents(incidents, serviceURL))

\* The last call was a RecordStatusTransition that returned without error.
Returned == last.op = "RecordStatusTransition" /\ ~last.err

\* C1: after a RecordStatusTransition(S, name, isUp, msg) call that returns without
\* error, on a Storage used by one caller at a time, service_state[S].is_up is isUp,
\* S has no open incident if isUp and exactly one open incident if not isUp.
C1_PostconditionOfTransition ==
    Returned =>
        /\ last.url \in DOMAIN service_state
        /\ GetServiceState(service_state, last.url).isUp = last.isUp
        /\ last.isUp => OpenCount(last.url) = 0
        /\ ~last.isUp => OpenCount(last.url) = 1

\* C2: in every state reached by successful, non-overlapping RecordStatusTransition
\* calls from an empty Storage, every service has at most one open incident.
C2_AtMostOneOpenIncident ==
    \A serviceURL \in Services : OpenCount(serviceURL) <= 1

\* A service went down, recovered and went down again: one resolved and one open incident.
C2_Witness ==
    \E serviceURL \in Services :
        /\ OpenCount(serviceURL) = 1
        /\ \E i \in ResolvedIncidents(incidents) : incidents[i].service_url = serviceURL
        /\ Returned /\ last.url = serviceURL /\ last.changed

\* The pair a reader sees agrees: an open incident exactly when the row says down.
ConsistentView(v) ==
    /\ ~((~v.exists \/ v.isUp) /\ v.open)
    /\ ~(v.exists /\ ~v.isUp /\ ~v.open)

\* C3: while a RecordStatusTransition(S, ...) call is in progress, a reader of
\* GetServiceState(S) and GetOngoingIncident(S) never sees is_up true (or no row)
\* with an open incident, nor is_up false with no open incident.
C3_ReaderNeverSeesTornPair ==
    \A serviceURL \in Services :
        (\E p \in Callers : call[p].pc \in {"read", "incident"} /\ call[p].url = serviceURL)
            => ConsistentView(ReaderView(service_state, incidents, serviceURL))

\* C4: two callers whose RecordStatusTransition(S, _, false, _) calls overlap never
\* both open an incident for S: S has at most one open incident.
C4_ConcurrentDownOpensOneIncident ==
    \A serviceURL \in Services :
        (\A p \in Callers : call[p].pc \in {"read", "incident"} /\ call[p].url = serviceURL
                             /\ ~call[p].isUp)
            => OpenCount(serviceURL) <= 1

\* C5: for a service with no service_state row, RecordStatusTransition(S, name, false, msg)
\* appends one open incident for S carrying msg and returns true, and
\* RecordStatusTransition(S, name, true, msg) leaves incidents alone and returns false;
\* both create the service_state row of S.
C5_FirstObservation ==
    \A serviceURL \in Services, message \in Messages :
        serviceURL \notin DOMAIN service_state =>
            LET d == RecordStatusTransitionResult(incidents, service_state, serviceURL,
                         DisplayName(serviceURL), FALSE, message, now, "none")
                u == RecordStatusTransitionResult(incidents, service_state, serviceURL,
                         DisplayName(serviceURL), TRUE, message, now, "none")
                n == Len(incidents)
            IN /\ d.changed /\ ~d.err
               /\ Len(d.inc) = n + 1
               /\ SubSeq(d.inc, 1, n) = incidents
               /\ d.inc[n + 1].service_url = serviceURL
               /\ d.inc[n + 1].message = message
               /\ d.inc[n + 1].ended_at = NULL
               /\ serviceURL \in DOMAIN d.st /\ d.st[serviceURL].is_up = 0
               /\ ~u.changed /\ ~u.err
               /\ u.inc = incidents
               /\ serviceURL \in DOMAIN u.st /\ u.st[serviceURL].is_up = 1

\* A first observation that was down has returned true and left a row and an open incident.
C5_Witness ==
    /\ Returned /\ last.first /\ ~last.isUp /\ last.changed
    /\ last.url \in DOMAIN service_state
    /\ incidents # <<>>
    /\ incidents[Len(incidents)].service_url = last.url
    /\ incidents[Len(incidents)].ended_at = NULL

\* C6: a RecordStatusTransition(S, _, v, _) call whose v equals the stored is_up of S
\* returns false and leaves the incidents table as it was, whichever statement fails;
\* when it returns without error the stored is_up is still v, so this repeats.
C6_SameValueIsNoOp ==
    \A serviceURL \in Services, isUp \in BOOLEAN, message \in Messages, fail \in Failures :
        (serviceURL \in DOMAIN service_state
         /\ service_state[serviceURL].is_up = boolToInt(isUp)) =>
            LET r == RecordStatusTransitionResult(incidents, service_state, serviceURL,
                         DisplayName(serviceURL), isUp, message, now, fail)
            IN /\ ~r.changed
               /\ r.inc = incidents
               /\ ~r.err => r.st[serviceURL].is_up = boolToInt(isUp)

\* A repeated down observation has returned false with the incident still open.
C6_Witness ==
    /\ Returned /\ ~last.first /\ ~last.isUp /\ ~last.changed
    /\ OpenCount(last.url) = 1

\* C7: when S has an open incident and RecordStatusTransition(S, _, true, _) returns
\* without error, the call returns true and S has no open incident afterwards (every
\* incident of S then has ended_at set, not before its started_at).
C7_RecoveryClosesIncident ==
    (Returned /\ last.hadOpen /\ last.isUp) =>
        /\ last.changed
        /\ OpenCount(last.url) = 0
        /\ \A i \in DOMAIN incidents :
              incidents[i].service_url = last.url =>
                  parseDBTime(incidents[i].ended_at) >= parseDBTime(incidents[i].started_at)


\* ---------------------------------------------------------------- claims: NotificationManager
\* The last CheckAndNotify call that returned.
Notified == nmlast.op = "CheckAndNotify"

\* C8: a CheckAndNotify call for S that gets past the gates, as every call that
\* returns true does, carries a timestamp at least cooldown after the timestamp of
\* the last alert delivered for S: two delivered alerts of S are never closer.
C8_CooldownBetweenDeliveredAlerts ==
    (mu # "free" /\ lastSent[cur.url] # 0) =>
        cur.timestamp - lastSent[cur.url] >= cooldown

\* A second alert of a service was delivered under a cooldown of at least one tick.
C8_Witness ==
    /\ Notified /\ nmlast.ret /\ nmlast.prevAlert # 0
    /\ cooldown >= 1
    /\ lastSent[nmlast.url] > nmlast.prevAlert

\* C9: CheckAndNotify(S, v) with a previous observation of S equal to v returns
\* false and invokes no notifier, whatever the cooldown and the last alert time;
\* the stored state of S is v afterwards.
C9_NoEdgeNoNotification ==
    (Notified /\ nmlast.same) =>
        /\ ~nmlast.ret
        /\ nmlast.results = <<>>
        /\ mu = "free" => (nmlast.url \in DOMAIN serviceState
                           /\ serviceState[nmlast.url] = nmlast.isUp)

\* A repeated observation returned false although notifiers are registered and no
\* cooldown is running.
C9_Witness ==
    /\ Notified /\ nmlast.same /\ ~nmlast.ret
    /\ mu = "free"
    /\ notifiers # <<>>
    /\ nmlast.url \notin DOMAIN lastAlert
    /\ serviceState[nmlast.url] = nmlast.isUp

\* C10: a CheckAndNotify call that passes both gates invokes every registered
\* notifier once, whatever the earlier ones return; it returns true exactly when
\* some notifier returned no error, and lastAlert[S] is set to the instant of the
\* return exactly then, and is otherwise what it was.
C10_FanOutToleratesFailures ==
    (Notified /\ nmlast.passed) =>
        /\ Len(nmlast.results) = nmlast.ranged
        /\ nmlast.ret <=> (\E i \in DOMAIN nmlast.results : nmlast.results[i] = "ok")
        /\ nmlast.ret => LastAlertOf(lastAlert, nmlast.url) = nmlast.at
        /\ ~nmlast.ret => LastAlertOf(lastAlert, nmlast.url) = nmlast.prevAlert

\* The first notifier failed, the second was still invoked and succeeded: true is returned.
C10_Witness ==
    /\ Notified /\ nmlast.passed /\ nmlast.ret
    /\ nmlast.results = <<"err", "ok">>
    /\ lastAlert[nmlast.url] = nmlast.at

\* The kind of alert the claims expect for an observation.
ExpectedKind(isUp) == IF isUp THEN "recovery" ELSE "down"

\* The last CheckAndNotify call that ran without overlap.
NotifiedAlone == notified.op = "CheckAndNotify"

Inside == {g \in NMCallers : nmcall[g].pc # "idle"}

\* C12: CheckAndNotify calls on one manager do not interleave: at most one goroutine
\* is between Lock and Unlock; what it reads is what the maps held when it took the
\* lock, what it wrote is still there, and the last alert time of its service is
\* untouched until it returns; when no call is in progress the state entry of every
\* service is the value passed by the call for it that took the lock last.
C12_CallsAreSerialized ==
    /\ Cardinality(Inside) <= 1
    /\ \A g \in Inside :
          LET c == nmcall[g]
          IN /\ mu = g
             /\ c.pc \in {"read", "written", "notify"} =>
                   c.exists = c.exists0 /\ c.prevState = c.prev0
             /\ c.pc \in {"locked", "read"} =>
                   /\ (c.url \in DOMAIN serviceState) = c.exists0
                   /\ c.exists0 => serviceState[c.url] = c.prev0
             /\ c.pc \in {"written", "notify"} =>
                   c.url \in DOMAIN serviceState /\ serviceState[c.url] = c.isUp
             /\ LastAlertOf(lastAlert, c.url) = c.last0
    /\ Inside = {} => serviceState = lastLock

\* One goroutine has returned from a call, and the other is in the fan-out of a call
\* that saw an edge on a service observed before.
C12_Witness ==
    /\ nmcall["g2"].ran
    /\ nmcall["g1"].pc = "notify"
    /\ nmcall["g1"].exists0 /\ nmcall["g1"].prev0 # nmcall["g1"].isUp
    /\ nmcall["g1"].results # <<>>
    /\ cooldown > 0


\* ---------------------------------------------------------------- claims: sweep
\* The calls of one loop iteration with a Storage and a NotificationManager, in order.
StepOrder == <<"check", "RecordStatusTransition", "RecordStatus", "CheckAndNotify">>

\* A sweep that probes, with both a Storage and a NotificationManager.
FullSweep == sweep.pc # "idle" /\ sweep.maintenanceMsg = "" /\ sweep.storage /\ sweep.notifyManager

\* C13: in a non-maintenance sweep with a Storage and a NotificationManager, the calls
\* made so far are, probe after probe in list order, the probe's check, then
\* RecordStatusTransition, then RecordStatus, then CheckAndNotify, all four for the
\* probe's own URL; the next probe's check comes only after them, and a sweep that
\* has returned has made all four calls for every probe.
C13_SweepOrder ==
    FullSweep =>
        /\ \A k \in DOMAIN sweep.trace :
              /\ sweep.trace[k].op = StepOrder[((k - 1) % 4) + 1]
              /\ sweep.trace[k].i = ((k - 1) \div 4) + 1
              /\ sweep.trace[k].i \in DOMAIN sweep.services
              /\ sweep.trace[k].url = sweep.services[sweep.trace[k].i].URL
        /\ sweep.pc = "done" => Len(sweep.trace) = 4 * Len(sweep.services)

\* A sweep over two probes of different services has returned after making every call.
C13_Witness ==
    /\ FullSweep
    /\ sweep.pc = "done"
    /\ Len(sweep.services) = 2
    /\ sweep.services[1].URL # sweep.services[2].URL
    /\ Len(sweep.trace) = 8

\* C14: a sweep called with a non-empty maintenance message returns every service of
\* the list in the up bucket, in list order, under its display name and with response
\* time 0, returns empty degraded and down buckets, and makes no call at all, so no
\* probe outcome can change the result; DetermineOverallStatus then yields maintenance.
C14_MaintenanceResult ==
    (sweep.pc = "done" /\ sweep.maintenanceMsg # "") =>
        /\ Len(sweep.up) = Len(sweep.services)
        /\ \A k \in DOMAIN sweep.services :
              sweep.up[k] = [Name |-> SvcDisplayName(sweep.services[k]), ResponseTime |-> 0]
        /\ sweep.degraded = <<>>
        /\ sweep.down = <<>>
        /\ sweep.trace = <<>>
        /\ sweep.overall = "maintenance"
        /\ DetermineOverallStatus(sweep.maintenanceMsg, sweep.degraded, sweep.down) = "maintenance"

\* A maintenance sweep over two services with different display names has returned.
C14_Witness ==
    /\ sweep.pc = "done"
    /\ sweep.maintenanceMsg # ""
    /\ Len(sweep.services) = 2
    /\ SvcDisplayName(sweep.services[1]) # SvcDisplayName(sweep.services[2])
    /\ Len(sweep.up) = 2

\* The degraded and down maps a sweep over the configured services may return.
BucketMaps ==
    UNION {[D -> {[Minutes |-> defaultOutageMinutes, ResponseTime |-> t] : t \in ResponseTimes}] :
              D \in SUBSET {SvcDisplayName(p) : p \in Pingers}}

\* The overall status by priority: maintenance, then danger, then degraded, then success.
ByPriority(maintenanceMsg, degraded, down) ==
    CASE maintenanceMsg # "" -> "maintenance"
      [] maintenanceMsg = "" /\ down # <<>> -> "danger"
      [] maintenanceMsg = "" /\ down = <<>> /\ degraded # <<>> -> "degraded"
      [] maintenanceMsg = "" /\ down = <<>> /\ degraded = <<>> -> "success"

\* C15: DetermineOverallStatus returns maintenance when the message is non-empty,
\* otherwise danger when the down bucket is non-empty, otherwise degraded when the
\* degraded bucket is non-empty, otherwise success, for every message and pair of
\* buckets; the status computed for a returned sweep follows the same priority, and
\* a non-maintenance sweep over an empty list yields success.
C15_OverallStatusPriority ==
    /\ \A m \in MaintenanceMsgs, dg \in BucketMaps, dn \in BucketMaps :
          DetermineOverallStatus(m, dg, dn) = ByPriority(m, dg, dn)
    /\ sweep.pc = "done" =>
          /\ sweep.overall = ByPriority(sweep.maintenanceMsg, sweep.degraded, sweep.down)
          /\ (sweep.maintenanceMsg = "" /\ sweep.services = <<>>) => sweep.overall = "success"

\* A sweep that found one service degraded and another down has returned danger.
C15_Witness ==
    /\ sweep.pc = "done"
    /\ sweep.maintenanceMsg = ""
    /\ sweep.degraded # <<>>
    /\ sweep.down # <<>>
    /\ sweep.overall = "danger"

\* A non-maintenance sweep has returned.
ProbedSweep == sweep.pc = "done" /\ sweep.maintenanceMsg = ""

\* The display names of the probes of the list are pairwise different.
DistinctDisplayNames ==
    \A j, k \in DOMAIN sweep.services :
        SvcDisplayName(sweep.services[j]) = SvcDisplayName(sweep.services[k]) => j = k

\* C16: after a non-maintenance sweep over n probes, whether or not their display
\* names are distinct, every probe is found in the bucket of its outcome and the
\* sizes of the up, degraded and down buckets add up to n.
C16_BucketPartition ==
    ProbedSweep =>
        /\ Len(sweep.up) + Cardinality(DOMAIN sweep.degraded) + Cardinality(DOMAIN sweep.down)
              = Len(sweep.services)
        /\ \A k \in DOMAIN sweep.services :
              LET name == SvcDisplayName(sweep.services[k])
              IN CASE sweep.outcomes[k] = "up" -> \E j \in DOMAIN sweep.up : sweep.up[j].Name = name
                   [] sweep.outcomes[k] = "degraded" -> name \in DOMAIN sweep.degraded
                   [] sweep.outcomes[k] = "down" -> name \in DOMAIN sweep.down

\* The partition of C16 for lists whose display names are pairwise different.
C16_PartitionOfDistinctNames == DistinctDisplayNames => C16_BucketPartition

\* The probe at hand was found degraded.
AtDegraded == sweep.pc \in {"transition", "status", "place"} /\ IsDegraded(sweep.result.Err)

\* C17, first part: a probe found degraded is put in the degraded bucket, and true
\* is the is_up passed for it to RecordStatusTransition, RecordStatus and CheckAndNotify.
C17_DegradedPassedAsUp ==
    /\ \A k \in DOMAIN sweep.trace :
          (sweep.trace[k].op # "check" /\ sweep.outcomes[sweep.trace[k].i] = "degraded")
              => sweep.trace[k].isUp
    /\ ProbedSweep =>
          \A k \in DOMAIN sweep.services :
              sweep.outcomes[k] = "degraded"
                  => SvcDisplayName(sweep.services[k]) \in DOMAIN sweep.degraded

\* C17, second part: the Store and manager calls made for a degraded probe start no
\* incident and send no down alert.
C17_DegradedOpensNothing ==
    AtDegraded =>
        /\ Len(incidents') = Len(incidents)
        /\ \A k \in DOMAIN alerts' : k > Len(alerts) => alerts'[k].alert_type = "recovery"
        /\ (sweep.pc = "place" /\ sweep.notifyManager) => notified'.isUp

\* C17, third part: when a service seen down last and with an open incident is found
\* degraded, the RecordStatusTransition call made for it, if it returns no error,
\* leaves the service without an open incident.
C17_DownToDegradedCloses ==
    LET url == sweep.services[sweep.i].URL
    IN (/\ AtDegraded
        /\ sweep.pc = "transition"
        /\ url \in DOMAIN sweep.lastOutcome
        /\ sweep.lastOutcome[url] = "down"
        /\ OpenIncidents(incidents, url) # {}
        /\ sweep'.errors = sweep.errors)
           => OpenIncidents(incidents', url) = {}

\* C17: a degraded outcome goes to the degraded bucket and is passed on as is_up =
\* true; it never opens an incident, never produces a down alert, and a change from
\* down to degraded closes the open incident.
C17_DegradedCountsAsOperational ==
    /\ []C17_DegradedPassedAsUp
    /\ [][C17_DegradedOpensNothing]_vars
    /\ [][C17_DownToDegradedCloses]_vars

\* The first two parts of C17.
C17_DegradedPlacedAndHarmless ==
    []C17_DegradedPassedAsUp /\ [][C17_DegradedOpensNothing]_vars

\* The third part of C17 in behaviours in which no Store call has returned an error.
C17_ClosesWhenNoCallFailed ==
    [][sweep.errors = 0 => C17_DownToDegradedCloses]_vars

\* The calls of one loop iteration, in order, for a sweep with or without a Storage
\* and a NotificationManager.
StepsOf(storage_, notifyManager) ==
    <<"check">>
    \o (IF storage_ THEN <<"RecordStatusTransition", "RecordStatus">> ELSE <<>>)
    \o (IF notifyManager THEN <<"CheckAndNotify">> ELSE <<>>)

\* The positions of the list whose probe had the given outcome, in list order.
ProbesWith(outcome) ==
    SelectSeq([k \in DOMAIN sweep.outcomes |-> k], LAMBDA k : sweep.outcomes[k] = outcome)

\* The display names of the probes that had the given outcome.
NamesWith(outcome) ==
    {SvcDisplayName(sweep.services[k]) : k \in {j \in DOMAIN sweep.outcomes : sweep.outcomes[j] = outcome}}

\* C18, as seen when the sweep has returned: whatever Store calls returned errors,
\* every call of every probe was made, in order, and the buckets are those the
\* outcomes of the probes alone determine.
C18_SnapshotDespiteErrors ==
    ProbedSweep =>
        LET steps == StepsOf(sweep.storage, sweep.notifyManager)
        IN /\ Len(sweep.trace) = Len(steps) * Len(sweep.services)
           /\ \A k \in DOMAIN sweep.trace :
                 /\ sweep.trace[k].op = steps[((k - 1) % Len(steps)) + 1]
                 /\ sweep.trace[k].i = ((k - 1) \div Len(steps)) + 1
           /\ Len(sweep.outcomes) = Len(sweep.services)
           /\ Len(sweep.up) = Len(ProbesWith("up"))
           /\ \A j \in DOMAIN sweep.up :
                 sweep.up[j].Name = SvcDisplayName(sweep.services[ProbesWith("up")[j]])
           /\ DOMAIN sweep.degraded = NamesWith("degraded")
           /\ DOMAIN sweep.down = NamesWith("down")

\* C18, step by step: a Store call that returns an error is followed by the statement
\* that follows it when it succeeds, the probe's result and the buckets untouched.
C18_ErrorIsLoggedOnly ==
    sweep'.errors > sweep.errors =>
        /\ sweep.pc \in {"transition", "status"}
        /\ sweep'.pc = IF sweep.pc = "transition" THEN "status" ELSE "place"
        /\ sweep'.i = sweep.i
        /\ sweep'.result = sweep.result
        /\ <<sweep'.up, sweep'.degraded, sweep'.down>> = <<sweep.up, sweep.degraded, sweep.down>>

\* C18: a sweep surfaces no error of RecordStatusTransition or RecordStatus: it makes
\* the remaining Store call and CheckAndNotify for the service, puts the service in
\* the bucket of its outcome, goes on with the later probes and returns its snapshot.
C18_SweepSurfacesNoErrors ==
    []C18_SnapshotDespiteErrors /\ [][C18_ErrorIsLoggedOnly]_vars

\* A sweep over two probes in which all four Store calls returned errors has returned
\* with one service down and the other up.
C18_Witness ==
    /\ ProbedSweep
    /\ sweep.storage /\ sweep.notifyManager
    /\ sweep.errors = 4
    /\ sweep.outcomes = <<"down", "up">>
    /\ Len(sweep.trace) = 8
    /\ Len(sweep.up) = 1
    /\ sweep.down # <<>>

\* ---------------------------------------------------------------- claims: resolved incidents
\* The resolved incidents that lasted at least minDuration.
Qualifying(minDuration) ==
    {i \in ResolvedIncidents(incidents) :
        parseDBTime(incidents[i].ended_at) - parseDBTime(incidents[i].started_at) >= minDuration}

\* The smaller of two numbers.
Min(a, b) == IF a < b THEN a ELSE b

\* What C19 says of the rows a call with the given arguments returned.
RecentAsClaimed(rows, limit, minDuration) ==
    LET Q == Qualifying(minDuration)
        ids == {rows[k].ID : k \in DOMAIN rows}
    IN /\ ids \subseteq Q
       /\ \A k \in DOMAIN rows : ~rows[k].IsOngoing /\ rows[k] = ScanResolved(incidents[rows[k].ID])
       /\ \A j, k \in DOMAIN rows : j < k => (rows[j].ID # rows[k].ID /\ rows[j].EndedAt >= rows[k].EndedAt)
       /\ \A q \in Q \ ids : \A k \in DOMAIN rows : parseDBTime(incidents[q].ended_at) <= rows[k].EndedAt
       /\ Len(rows) = Min(limit, Cardinality(Q))

\* C19: the rows GetRecentResolvedIncidents(limit, minDuration) returns are the first
\* limit of the resolved incidents that lasted at least minDuration, most recently
\* ended first; none is ongoing, and there are fewer than limit only when fewer
\* such incidents exist.
C19_RecentResolvedIncidents ==
    last.op = "GetRecentResolvedIncidents" =>
        RecentAsClaimed(last.rows, last.limit, last.minDuration)

\* The statement of C19 for calls that filter nothing out (minDuration = 0).
C19_RecentOfAnyDuration ==
    (last.op = "GetRecentResolvedIncidents" /\ last.minDuration = 0) =>
        RecentAsClaimed(last.rows, last.limit, last.minDuration)

\* ---------------------------------------------------------------- claims: factories
\* The field a service of the given type cannot do without, "" when there is none.
RequiredField(type) ==
    CASE type = "tcp" -> "Port"
      [] type = "grep" -> "Regex"
      [] type = "script" -> "Command"
      [] type = "icmp" -> "URL"
      [] OTHER -> ""

\* The service lacks the field its type requires.
LacksRequired(type, s) == RequiredField(type) # "" /\ IsUnset(s, RequiredField(type))

\* What C20 says of the last Create call of a factory of one of the given types and
\* of the check of its probe.
ValidatedBy(types) ==
    made.factory \in types =>
        /\ (made.s.Type # made.factory \/ LacksRequired(made.factory, made.s))
              => (made.err # "nil" /\ made.pinger = NilPinger)
        /\ made.status # "none" => ~LacksRequired(made.pinger.kind, made.pinger.Service)

\* C20: the factory of every service type returns an error and no probe for a service
\* of another type and for a service without the field the type requires (port for
\* tcp, regex for grep, command for script, host for icmp), so that no probe is ever
\* checked without its required field.
C20_FactoryValidation == ValidatedBy(FactoryTypes)

\* The statement of C20 for the factories other than the grep one.
C20_ValidationExceptGrep == ValidatedBy(FactoryTypes \ {"grep"})

\* The characters of an address, one by one, for an address short enough to write out.
RECURSIVE Spelled(_)
Spelled(host) ==
    IF host = <<>> THEN <<>>
    ELSE [k \in 1..host[1].n |-> host[1].c] \o Spelled(Tail(host))

\* Some character of the address is one of the given ones.
Contains(host, chars) == \E k \in DOMAIN host : host[k].c \in chars

\* A label as C21 describes it: 1 to 63 letters, digits and hyphens, neither the
\* first nor the last of them a hyphen.
ClaimedLabel(part) ==
    /\ HostLen(part) >= 1 /\ HostLen(part) <= 63
    /\ \A k \in DOMAIN part : part[k].c \in {"a", "z", "1", "-"}
    /\ part[1].c # "-"
    /\ part[Len(part)].c # "-"

\* An address as C21 admits it: an IP literal, or at most 253 characters in labels.
ClaimedAddress(host) ==
    \/ ParseIP(host)
    \/ /\ HostLen(host) <= 253
       /\ \A k \in DOMAIN Split(host, ".") : ClaimedLabel(Split(host, ".")[k])

\* C21: ICMPFactory.Create, asked for an icmp service, returns a probe exactly when
\* the address is an IP literal or a host name of at most 253 characters whose labels
\* have 1 to 63 letters, digits and inner hyphens; the empty address yields
\* ErrHostRequired and every other address ErrInvalidHostname, with no probe, in
\* particular every address with white space or a shell metacharacter and every
\* address that starts with a hyphen.
C21_ICMPHostnameGate ==
    (made.factory = "icmp" /\ made.s.Type = "icmp") =>
        LET host == made.s.URL
        IN /\ (made.pinger # NilPinger) = (made.err = "nil")
           /\ made.err = "nil" <=> (host # <<>> /\ ClaimedAddress(host))
           /\ host = <<>> => made.err = "commands: host is required for icmp check"
           /\ (host # <<>> /\ ~ClaimedAddress(host))
                 => made.err = "commands: invalid hostname for icmp check"
           /\ (host # <<>> /\ (Contains(host, {" ", "\n", ";", "|", "&", "$", "BACKQUOTE"})
                                \/ host[1].c = "-"))
                 => (made.err = "commands: invalid hostname for icmp check"
                     /\ made.pinger = NilPinger)
           /\ made.pinger # NilPinger => made.pinger.Service.URL = host

\* A probe was made for an address of exactly 253 characters in four labels, the
\* longest 63 characters long.
C21_Witness ==
    /\ made.factory = "icmp"
    /\ made.pinger # NilPinger
    /\ HostLen(made.s.URL) = 253
    /\ Len(Split(made.s.URL, ".")) = 4
    /\ \E k \in 1..4 : HostLen(Split(made.s.URL, ".")[k]) = 63

\* ---------------------------------------------------------------- status page
\* Largest number of services of a composed page.
MaxPageServices == 3

\* Display names of the services of a page.
PageNames == {"n1", "n2"}
\* Strings handed to StatusHTML and found in the Status of a Page.
StatusStrings == {"danger", "degraded", "success", "maintenance", "", "unknown", "warning"}
\* HTTP methods of a request.
Methods == {"GET", "HEAD", "POST", "PUT", "DELETE", "PATCH"}
\* Durations of a check, in nanoseconds.
PageDurations == {2500000}
\* StatusHTML: the four known strings pass, anything else is "success".
StatusHTML(s) ==
    IF s \in {"danger", "degraded", "success", "maintenance"} THEN s ELSE "success"

\* Duration.Milliseconds().
Milliseconds(d) == d \div 1000000

\* time.Now().UTC().Format(time.RFC3339).
RFC3339(t) == <<"RFC3339", t>>

\* All orders in which a range over a map with these keys may visit them.
MapOrders(keys) ==
    {o \in [1..Cardinality(keys) -> keys] : \A j, k \in DOMAIN o : o[j] = o[k] => j = k}

\* The three buckets after the first n services of main's loop.
RECURSIVE MainBuckets(_, _, _, _, _)
MainBuckets(services, results, maintenanceMsg, d, n) ==
    IF n = 0 THEN [up |-> <<>>, degraded |-> <<>>, down |-> <<>>]
    ELSE LET b == MainBuckets(services, results, maintenanceMsg, d, n - 1)
             displayName == services[n]
             err == ErrOf(results[n])
             info == [Minutes |-> defaultOutageMinutes, ResponseTime |-> d]
         IN IF maintenanceMsg # ""
            THEN [b EXCEPT !.up = Append(@, [Name |-> displayName, ResponseTime |-> 0])]
            ELSE IF err # "nil"
                 THEN IF IsDegraded(err)
                      THEN [b EXCEPT !.degraded = MapSet(@, displayName, info)]
                      ELSE [b EXCEPT !.down = MapSet(@, displayName, info)]
                 ELSE [b EXCEPT !.up = Append(@, [Name |-> displayName, ResponseTime |-> d])]

\* The Page main composes from the buckets and the maintenance message.
MainPageOf(b, maintenanceMsg, t) ==
    [Title |-> "My Status",
     Status |-> StatusHTML(DetermineOverallStatus(maintenanceMsg, b.degraded, b.down)),
     Up |-> b.up, Degraded |-> b.degraded, Down |-> b.down,
     Time |-> <<"2006-01-02 15:04:05", t>>,
     MaintenanceMessage |-> maintenanceMsg,
     PastIncidents |-> <<>>]

\* Faulty variant of UpStatuses: the up services come out last first.
UpStatuses_Reversed(p, updated) ==
    [k \in DOMAIN p.Up |->
        [name |-> p.Up[Len(p.Up) + 1 - k].Name, status |-> "OK", updated |-> updated,
         response_time_ms |-> Milliseconds(p.Up[Len(p.Up) + 1 - k].ResponseTime)]]

\* APIStatus, first loop: one ServiceStatus per element of p.Up, in slice order.
UpStatuses(p, updated) ==
    [k \in DOMAIN p.Up |->
        [name |-> p.Up[k].Name, status |-> "OK", updated |-> updated,
         response_time_ms |-> Milliseconds(p.Up[k].ResponseTime)]]

\* APIStatus, second and third loop: one ServiceStatus per key of the map, in the
\* order the range statement visits the keys.
MapStatuses(m, order, status, updated) ==
    [k \in DOMAIN order |->
        [name |-> order[k], status |-> status, updated |-> updated,
         response_time_ms |-> Milliseconds(m[order[k]].ResponseTime)]]

\* Faulty variant of OverallStatusOf: a degraded page reads OK.
OverallStatusOf_NoDegraded(status) ==
    IF status = "danger" THEN "DOWN"
    ELSE IF status = "maintenance" THEN "MAINTENANCE"
         ELSE "OK"

\* APIStatus: the overall status string of the answer.
OverallStatusOf(status) ==
    IF status = "danger" THEN "DOWN"
    ELSE IF status = "degraded" THEN "DEGRADED"
         ELSE IF status = "maintenance" THEN "MAINTENANCE"
              ELSE "OK"

\* APIStatus: the past incidents of the answer; an ongoing one has no end.
APIIncidents(past) ==
    [k \in DOMAIN past |->
        [service_name |-> past[k].ServiceName, started_at |-> past[k].StartedAt,
         ended_at |-> IF ~past[k].IsOngoing THEN past[k].EndedAt ELSE "",
         duration_ms |-> Milliseconds(past[k].Duration),
         message |-> past[k].Message, is_ongoing |-> past[k].IsOngoing]]

\* http.Error: the status code and one line of plain text.
HTTPError(text, code) ==
    [code |-> code, contentType |-> "text/plain; charset=utf-8", kind |-> "line",
     text |-> text, json |-> NoAPIResponse]

\* Faulty variant of MethodAllowed: HEAD is turned away.
MethodAllowed_GetOnly(method) == method = "GET"

\* APIStatus: the methods it answers.
MethodAllowed(method) == ~(method # "GET" /\ method # "HEAD")

\* APIStatus: the answer to a request; json.Marshal returns an error or the bytes of
\* the response, which are then written whole.
APIStatusResult(p, method, marshalErr, degradedOrder, downOrder, t) ==
    IF ~MethodAllowed(method) THEN HTTPError("Method not allowed", 405)
    ELSE LET updated == RFC3339(t)
             services == UpStatuses(p, updated)
                           \o MapStatuses(p.Degraded, degradedOrder, "DEGRADED", updated)
                           \o MapStatuses(p.Down, downOrder, "DOWN", updated)
             response == [overall_status |-> OverallStatusOf(p.Status),
                          services |-> services,
                          updated |-> updated,
                          maintenance_message |-> p.MaintenanceMessage,
                          past_incidents |-> APIIncidents(p.PastIncidents)]
         IN IF marshalErr THEN HTTPError("json: error", 500)
            ELSE [code |-> 200, contentType |-> "application/json", kind |-> "json",
                  text |-> "", json |-> response]

\* The pages a caller of APIStatus may hand over: any status string, up to one up
\* service, any degraded and down map over the names, up to one past incident.
LiteralPages ==
    LET OutageInfos == [Minutes : {defaultOutageMinutes}, ResponseTime : PageDurations]
        IncidentInfos == [ServiceName : {"n1"}, StartedAt : {"t1"}, EndedAt : {"t2"},
                          Duration : PageDurations, Message : {"m1"}, IsOngoing : BOOLEAN]
    IN
    {[Title |-> "Test Status", Status |-> st, Up |-> up, Degraded |-> dg, Down |-> dn,
      Time |-> <<>>, MaintenanceMessage |-> msg, PastIncidents |-> past] :
        st \in StatusStrings,
        up \in UNION {[1..n -> [Name : PageNames, ResponseTime : {0}]] : n \in 0..1},
        dg \in UNION {[ks -> OutageInfos] : ks \in SUBSET PageNames},
        dn \in UNION {[ks -> OutageInfos] : ks \in SUBSET {"n1"}},
        msg \in MaintenanceMsgs,
        past \in UNION {[1..n -> IncidentInfos] : n \in 0..1}}

\* StatusHTML is called with a string.
StatusHTMLCall(s) ==
    /\ web' = [web EXCEPT !.html = [in |-> s, out |-> StatusHTML(s)]]
    /\ UNCHANGED <<now, made, storeVars, nmVars, alertVars, lockVars, sweepVars>>

\* main checks the services (or skips the checks in maintenance mode), composes the
\* Page and registers the handlers.
MainPage(services, results, maintenanceMsg, d) ==
    /\ Len(results) = Len(services)
    /\ \A k \in DOMAIN results : (results[k] = "unchecked") = (maintenanceMsg # "")
    /\ \E b \in {MainBuckets(services, results, maintenanceMsg, d, Len(services))} :
          web' = [web EXCEPT
                    !.built = "main", !.services = services, !.results = results,
                    !.page = MainPageOf(b, maintenanceMsg, now),
                    !.html = [in |-> DetermineOverallStatus(maintenanceMsg, b.degraded, b.down),
                              out |-> MainPageOf(b, maintenanceMsg, now).Status]]
    /\ UNCHANGED <<now, made, storeVars, nmVars, alertVars, lockVars, sweepVars>>

\* A caller hands APIStatus a Page of its own.
LiteralPage(p) ==
    /\ web' = [web EXCEPT !.built = "literal", !.page = p]
    /\ UNCHANGED <<now, made, storeVars, nmVars, alertVars, lockVars, sweepVars>>

\* The handler APIStatus returned answers one request.
APIStatus(method, marshalErr, degradedOrder, downOrder) ==
    /\ web' = [web EXCEPT
                 !.method = method, !.marshalErr = marshalErr,
                 !.resp = APIStatusResult(web.page, method, marshalErr, degradedOrder,
                                          downOrder, now)]
    /\ UNCHANGED <<now, made, storeVars, nmVars, alertVars, lockVars, sweepVars>>

NextPage ==
    \/ Tick
    \/ web.built = "none" /\ web.html.out = "" /\ \E s \in StatusStrings : StatusHTMLCall(s)
    \/ web.built = "none" /\ web.html.out = "" /\
          \E services \in UNION {[1..n -> PageNames] : n \in 0..MaxPageServices},
             maintenanceMsg \in MaintenanceMsgs, d \in PageDurations :
             \E results \in [DOMAIN services -> Outcomes \cup {"unchecked"}] :
                MainPage(services, results, maintenanceMsg, d)
    \/ web.built = "none" /\ web.html.out = "" /\ \E p \in LiteralPages : LiteralPage(p)
    \/ web.built # "none" /\
          \E method \in Methods, marshalErr \in BOOLEAN,
             degradedOrder \in MapOrders(DOMAIN web.page.Degraded),
             downOrder \in MapOrders(DOMAIN web.page.Down) :
             APIStatus(method, marshalErr, degradedOrder, downOrder)

\* A page is composed once, then requests are answered from it for as long as the
\* process lives.
SpecPage == Init /\ [][NextPage]_vars

\* ---------------------------------------------------------------- C22
\* A request was answered by the JSON handler.
Answered == web.resp.kind # "none"

\* C22: the JSON handler answers only GET and HEAD. Any other method gets 405 with
\* the text "Method not allowed" and no snapshot; GET and HEAD get 200 with
\* Content-Type application/json; when marshalling fails the answer is 500 and
\* nothing of the snapshot is in the body.
C22_MethodGate ==
    Answered =>
        /\ web.method \notin {"GET", "HEAD"} =>
              /\ web.resp.code = 405
              /\ web.resp.kind = "line" /\ web.resp.text = "Method not allowed"
              /\ web.resp.json = NoAPIResponse
        /\ (web.method \in {"GET", "HEAD"} /\ ~web.marshalErr) =>
              /\ web.resp.code = 200
              /\ web.resp.contentType = "application/json"
              /\ web.resp.kind = "json"
        /\ (web.method \in {"GET", "HEAD"} /\ web.marshalErr) =>
              /\ web.resp.code = 500
              /\ web.resp.kind = "line"
              /\ web.resp.json = NoAPIResponse

\* A HEAD request was answered 200 from a page main composed with a service in each
\* bucket kind it can have.
C22_Witness ==
    /\ Answered /\ web.method = "HEAD" /\ web.resp.code = 200
    /\ web.built = "main" /\ web.page.Up # <<>> /\ DOMAIN web.page.Down # {}

\* ---------------------------------------------------------------- C23
\* A request was answered with a snapshot.
Snapshot == Answered /\ web.resp.kind = "json"

\* The positions of the services array holding this name with this status.
EntriesOf(sv, name, status) ==
    {k \in DOMAIN sv : sv[k].name = name /\ sv[k].status = status}

\* The display names of the configured services that were found up (or not checked, in
\* maintenance mode), in configured order.
ConfiguredUp ==
    LET ks == SelectSeq([k \in DOMAIN web.services |-> k],
                        LAMBDA k : web.results[k] \in {"up", "unchecked"})
    IN [j \in DOMAIN ks |-> web.services[ks[j]]]

\* C23: the services array of a snapshot has one entry for every up, degraded and down
\* entry of the page and nothing else, with status OK, DEGRADED and DOWN; the up
\* entries come first, in the order of the configured services.
C23_ServicesList ==
    Snapshot =>
        LET p == web.page
            sv == web.resp.json.services
            nUp == Len(p.Up)
        IN /\ Len(sv) = nUp + Cardinality(DOMAIN p.Degraded) + Cardinality(DOMAIN p.Down)
           /\ \A k \in 1..nUp : sv[k].name = p.Up[k].Name /\ sv[k].status = "OK"
           /\ \A k \in (nUp + 1)..Len(sv) :
                 \/ sv[k].status = "DEGRADED" /\ sv[k].name \in DOMAIN p.Degraded
                 \/ sv[k].status = "DOWN" /\ sv[k].name \in DOMAIN p.Down
           /\ \A name \in DOMAIN p.Degraded : Cardinality(EntriesOf(sv, name, "DEGRADED")) = 1
           /\ \A name \in DOMAIN p.Down : Cardinality(EntriesOf(sv, name, "DOWN")) = 1
           /\ web.built = "main" =>
                 [k \in 1..nUp |-> sv[k].name] = ConfiguredUp

\* A snapshot of a page main composed from three services: two of different names are
\* up, the later-named one configured first, and one is down.
C23_Witness ==
    /\ Snapshot /\ web.built = "main"
    /\ Len(web.page.Up) = 2 /\ web.page.Up[1].Name = "n2" /\ web.page.Up[2].Name = "n1"
    /\ DOMAIN web.page.Down # {}

\* ---------------------------------------------------------------- C24
\* Some configured service of the page main composed was found so.
SomeResult(outcome) == \E k \in DOMAIN web.results : web.results[k] = outcome

\* C24: StatusHTML returns danger, degraded, success and maintenance unchanged and
\* success for every other string; the overall_status of a snapshot is DOWN, DEGRADED,
\* MAINTENANCE for a page status danger, degraded, maintenance and OK for any other;
\* for a page main composed it is MAINTENANCE iff the maintenance message is not empty,
\* else DOWN iff some service is down, else DEGRADED iff some service is degraded,
\* else OK.
C24_OverallStatusMapping ==
    /\ web.html.out # "" =>
          web.html.out = IF web.html.in \in {"danger", "degraded", "success", "maintenance"}
                         THEN web.html.in ELSE "success"
    /\ Snapshot =>
          LET overall == web.resp.json.overall_status
              st == web.page.Status
          IN /\ (st = "danger") => overall = "DOWN"
             /\ (st = "degraded") => overall = "DEGRADED"
             /\ (st = "maintenance") => overall = "MAINTENANCE"
             /\ (st \notin {"danger", "degraded", "maintenance"}) => overall = "OK"
    /\ (Snapshot /\ web.built = "main") =>
          LET overall == web.resp.json.overall_status
          IN /\ (overall = "MAINTENANCE") = (web.page.MaintenanceMessage # "")
             /\ web.page.MaintenanceMessage = "" =>
                   /\ (overall = "DOWN") = SomeResult("down")
                   /\ ~SomeResult("down") =>
                         /\ (overall = "DEGRADED") = SomeResult("degraded")
                         /\ ~SomeResult("degraded") => overall = "OK"

\* A snapshot of a page main composed with a degraded service, an up one and none
\* down reads DEGRADED.
C24_Witness ==
    /\ Snapshot /\ web.built = "main"
    /\ SomeResult("degraded") /\ SomeResult("up") /\ ~SomeResult("down")
    /\ web.html.in = "degraded"
    /\ web.resp.json.overall_status = "DEGRADED"

\* ---------------------------------------------------------------- PruneOldRecords
\* Ages handed to PruneOldRecords, in ticks.
Ages == {0, 1}

\* The comparison checked_at < ? of the engine: both sides were written by the driver
\* in one layout, in which the order of the texts is the order of the instants.
DBTimeBefore(a, b) == a[1] = b[1] /\ a[2] < b[2]

\* Faulty variant of PruneOldRecordsResult: the rows written at the cutoff go too.
PruneOldRecordsResult_AtCutoffToo(sc, olderThan, t, failed) ==
    LET cutoff == DBTime(t - olderThan)
        kept == SelectSeq(sc, LAMBDA r : DBTimeBefore(cutoff, r.checked_at))
    IN IF failed THEN [status_checks |-> sc, deleted |-> 0, err |-> TRUE]
       ELSE [status_checks |-> kept, deleted |-> Len(sc) - Len(kept), err |-> FALSE]

\* PruneOldRecords: DELETE FROM status_checks WHERE checked_at < cutoff, and the
\* number of rows affected; nothing and 0 when the statement returns an error.
PruneOldRecordsResult(sc, olderThan, t, failed) ==
    LET cutoff == DBTime(t - olderThan)
        kept == SelectSeq(sc, LAMBDA r : ~DBTimeBefore(r.checked_at, cutoff))
    IN IF failed THEN [status_checks |-> sc, deleted |-> 0, err |-> TRUE]
       ELSE [status_checks |-> kept, deleted |-> Len(sc) - Len(kept), err |-> FALSE]

\* Storage.RecordStatus is called.
StoreRecordStatus(serviceURL, isUp, message) ==
    /\ Len(status_checks) < MaxRows
    /\ status_checks' = RecordStatus(status_checks, sqlite_sequence, serviceURL, isUp, message, now)
    /\ sqlite_sequence' = sqlite_sequence + 1
    /\ last' = [op |-> "RecordStatus", url |-> serviceURL, isUp |-> isUp, err |-> FALSE]
    /\ UNCHANGED <<now, made, web, incidents, service_state, call, nmVars, alertVars, lockVars,
                   sweep>>

\* Storage.RecordAlert is called.
StoreRecordAlert(serviceURL, isUp) ==
    /\ Len(alerts) < MaxRows
    /\ alerts' = RecordAlert(alerts, serviceURL, AlertTypeOf(isUp),
                             AlertMessage(isUp, serviceURL), now)
    /\ last' = [op |-> "RecordAlert", url |-> serviceURL, isUp |-> isUp, err |-> FALSE]
    /\ UNCHANGED <<now, made, web, incidents, service_state, call, nmVars, storage, trueLog,
                   notified, lockVars, sweepVars>>

\* Storage.PruneOldRecords is called.
PruneOldRecords(olderThan, failed) ==
    /\ \E r \in {PruneOldRecordsResult(status_checks, olderThan, now, failed)} :
          /\ status_checks' = r.status_checks
          /\ last' = [op |-> "PruneOldRecords", olderThan |-> olderThan, at |-> now,
                      before |-> status_checks, deleted |-> r.deleted, err |-> r.err,
                      frame |-> <<incidents, service_state, alerts>>]
    /\ UNCHANGED <<now, made, web, incidents, service_state, call, nmVars, alertVars, lockVars,
                   sqlite_sequence, sweep>>

NextPrune ==
    \/ Tick
    \/ sqlite_sequence = 0 /\ \E isUp \in BOOLEAN, message \in Messages :
                                RecordStatusTransition("s1", isUp, message, "none")
    \/ sqlite_sequence = 0 /\ alerts = <<>> /\ StoreRecordAlert("s1", FALSE)
    \/ \E isUp \in BOOLEAN : StoreRecordStatus("s1", isUp, "")
    \/ \E olderThan \in Ages, failed \in BOOLEAN : PruneOldRecords(olderThan, failed)

\* One caller records transitions and an alert, then checks, and prunes the checks
\* from time to time.
SpecPrune == Init /\ [][NextPrune]_vars

\* ---------------------------------------------------------------- C25
\* The last Storage call was a PruneOldRecords that returned without error.
Pruned == last.op = "PruneOldRecords" /\ ~last.err

\* The check of this row was made before the instant now - age of the last prune.
OlderThanCutoff(r) == parseDBTime(r.checked_at) < last.at - last.olderThan

NotifiedStep(S, v) ==
    /\ notified' # notified
    /\ notified'.op = "CheckAndNotify" /\ notified'.url = S /\ notified'.isUp = v

\* The last call was an edge for S that sent nothing: held back by the cooldown, or
\* let through to notifiers none of which delivered.
SuppressedEdge(S) ==
    /\ notified.op = "CheckAndNotify" /\ notified.url = S
    /\ notified.gate \in {"cooldown", "pass"} /\ ~notified.ret

\* The call of the step sent nothing and left no trace but the state of S.
SentNothing ==
    /\ ~notified'.ret /\ notified'.results = <<>>
    /\ lastAlert' = lastAlert /\ alerts' = alerts

\* C26: a suppressed edge is dropped, not deferred. Every CheckAndNotify(S, v) writes v
\* as the state of S, whatever gate it stops at; so a call with the value the manager
\* already holds for S returns false and sends nothing, in particular the call that
\* follows an edge suppressed by the cooldown or by failing notifiers, however long
\* after; only a call with the other value can notify again.
C26_SuppressedEdgeDropped ==
    [][\A S \in Services, v \in BOOLEAN :
          NotifiedStep(S, v) =>
             /\ S \in DOMAIN serviceState' /\ serviceState'[S] = v
             /\ (S \in DOMAIN serviceState /\ serviceState[S] = v) =>
                   (notified'.gate = "noedge" /\ SentNothing)
             /\ (SuppressedEdge(S) /\ notified.isUp = v) =>
                   (notified'.gate = "noedge" /\ SentNothing)
             /\ notified'.ret => (S \notin DOMAIN serviceState \/ serviceState[S] # v)]_vars

\* The recovery of s1 was held back and is not made up for: the last alert on record
\* for s1 is its down alert, the manager holds s1 as up, the cooldown has expired, and
\* a call with the same value has just returned false at the first gate.
C26_Witness ==
    /\ notified.op = "CheckAndNotify" /\ notified.url = "s1" /\ notified.isUp
    /\ notified.gate = "noedge" /\ ~notified.ret
    /\ storage /\ Len(alerts) = 1 /\ alerts[1].service_url = "s1" /\ alerts[1].alert_type = "down"
    /\ "s1" \in DOMAIN serviceState /\ serviceState["s1"]
    /\ cooldown > 0 /\ "s1" \in DOMAIN lastAlert /\ now - lastAlert["s1"] >= cooldown

\* ---------------------------------------------------------------- C27
\* Some notifier of the call of the step delivered the alert.
SomeDelivered == \E k \in DOMAIN notified'.results : notified'.results[k] = "ok"

\* The Alert the claim describes for an observation v of S.
ClaimedAlert(S, v, a) ==
    /\ a.ServiceURL = S
    /\ v => (a.AlertType = "recovery" /\ a.Message = <<"Service recovered: ", S>>)
    /\ ~v => (a.AlertType = "down" /\ a.Message = <<"Service down: ", S>>)

\* C27: the first observation of a service is an edge. For S the manager never
\* observed, CheckAndNotify(S, v) invokes every notifier with an alert of kind recovery
\* and message "Service recovered: S" if v, of kind down and message "Service down: S"
\* if not, whether or not a down alert went before, and returns true when one of them
\* delivers; whenever notifiers are invoked the kind is recovery iff v.
C27_FirstObservationIsEdge ==
    [][\A S \in Services, v \in BOOLEAN :
          NotifiedStep(S, v) =>
             /\ S \notin DOMAIN serviceState =>
                   /\ notified'.gate = "pass"
                   /\ Len(notified'.results) = Len(notifiers)
                   /\ ClaimedAlert(S, v, notified'.alert)
                   /\ notified'.ret = SomeDelivered
                   /\ (storage /\ notified'.ret) =>
                         /\ Len(alerts') = Len(alerts) + 1
                         /\ alerts'[Len(alerts')].alert_type = notified'.alert.AlertType
             /\ notified'.gate = "pass" =>
                   /\ ClaimedAlert(S, v, notified'.alert)
                   /\ (notified'.alert.AlertType = "recovery") = v
             /\ notified'.gate # "pass" => notified'.alert = NoAlert]_vars

\* The first thing a manager learns of s1 is that it is up: the recovery alert is
\* delivered by one notifier though another fails, and no down alert exists.
C27_Witness ==
    /\ notified.op = "CheckAndNotify" /\ notified.url = "s1" /\ notified.isUp
    /\ notified.ret /\ notified.alert.AlertType = "recovery"
    /\ \E k \in DOMAIN notified.results : notified.results[k] = "err"
    /\ storage /\ Len(alerts) = 1 /\ alerts[1].alert_type = "recovery"

\* ---------------------------------------------------------------- services of one address
\* The services two tcp probes wrap that TCPFactory.Create made for one host and two
\* ports, and the services two script probes wrap that ScriptFactory.Create made for
\* two commands: Create keeps URL, Port and Name for tcp and Command and Name for
\* script, so that the URL of every script probe is empty.
TCPProbes ==
    <<[Type |-> "tcp", URL |-> "s1", Port |-> "80", Name |-> "", Command |-> <<>>],
      [Type |-> "tcp", URL |-> "s1", Port |-> "81", Name |-> "", Command |-> <<>>]>>
ScriptProbes ==
    <<[Type |-> "script", URL |-> "", Port |-> "", Name |-> "", Command |-> <<"a">>],
      [Type |-> "script", URL |-> "", Port |-> "", Name |-> "", Command |-> <<"b">>]>>
\* A configuration of two hosts, for comparison.
HostProbes ==
    <<[Type |-> "tcp", URL |-> "s1", Port |-> "80", Name |-> "", Command |-> <<>>],
      [Type |-> "tcp", URL |-> "s2", Port |-> "80", Name |-> "", Command |-> <<>>]>>

NextShared ==
    \/ sweep.pc = "idle" /\ notifiers = <<>> /\ AddNotifier("webhook")
    \/ sweep.pc = "idle" /\ ~storage /\ SetStorage(TRUE)
    \/ sweep.pc = "idle" /\
          \E services \in {TCPProbes, ScriptProbes, HostProbes}, storage_ \in BOOLEAN, notifyManager \in BOOLEAN :
             CheckAllServices(services, storage_, notifyManager, "")
    \/ \E outcome \in Outcomes, responseTime \in ResponseTimes : SweepCheck(outcome, responseTime)
    \/ \E fail \in Failures : SweepTransition(fail)
    \/ \E failed \in BOOLEAN : SweepStatus(failed)
    \/ \E outcomes \in FanOutOutcomes(notifiers) : SweepPlace(outcomes)

\* One sweep over a configuration of two services of one host, of two scripts, or of
\* two hosts.
SpecShared == Init /\ [][NextShared]_vars

\* ---------------------------------------------------------------- C28
\* What the Store and the manager hold for a configured service: its service_state
\* row, its open incidents, its state and last alert time in the manager.
TrackedFor(st, inc, ss, la, svc) ==
    [row |-> [exists |-> svc.URL \in DOMAIN st, value |-> GetServiceState(st, svc.URL)],
     open |-> OpenIncidents(inc, svc.URL),
     state |-> [known |-> svc.URL \in DOMAIN ss,
                up |-> IF svc.URL \in DOMAIN ss THEN ss[svc.URL] ELSE FALSE],
     alerted |-> [known |-> svc.URL \in DOMAIN la, at |-> LastAlertOf(la, svc.URL)]]

\* C28: per-service independence. While the sweep handles one configured service,
\* what is recorded for every other configured service (its service_state row, its
\* open incident, its state and last alert time in the manager) stays as it is; two
\* configured services that differ in port or in command only are tracked apart.
C28_PerServiceIndependence ==
    [][\A j \in DOMAIN sweep.services :
          (sweep.pc \in {"transition", "status", "place"} /\ j # sweep.i) =>
             TrackedFor(service_state', incidents', serviceState', lastAlert', sweep.services[j])
               = TrackedFor(service_state, incidents, serviceState, lastAlert, sweep.services[j])]_vars

\* C28 for configurations whose services have different URLs.
C28_IndependentWhenURLsDiffer ==
    [][\A j \in DOMAIN sweep.services :
          (/\ sweep.pc \in {"transition", "status", "place"} /\ j # sweep.i
           /\ sweep.services[j].URL # sweep.services[sweep.i].URL) =>
             TrackedFor(service_state', incidents', serviceState', lastAlert', sweep.services[j])
               = TrackedFor(service_state, incidents, serviceState, lastAlert, sweep.services[j])]_vars

\* ---------------------------------------------------------------- C29
\* C29: a RecordStatusTransition call that returns an error leaves the Store as it was
\* before the call: no incident was opened or closed and no service_state row
\* changed.
C29_UnchangedOnError ==
    [][(last'.op = "RecordStatusTransition" /\ last'.err) =>
          (incidents' = incidents /\ service_state' = service_state)]_vars

\* C29 for the calls that return (false, error): reading the state failed, the
\* incident statement failed, or the upsert failed where no incident statement ran.
C29_UnchangedWhenNothingReported ==
    [][(last'.op = "RecordStatusTransition" /\ last'.err /\ ~last'.changed) =>
          (incidents' = incidents /\ service_state' = service_state)]_vars

\* ---------------------------------------------------------------- C30
\* The step belongs to a CheckAllServices run with a maintenance message.
MaintenanceStep == sweep' # sweep /\ sweep'.maintenanceMsg # ""

\* C30: maintenance mode is free of side effects. A CheckAllServices run with a
\* non-empty maintenance message invokes no check, writes no status_checks row,
\* creates, closes or changes no service_state row and no incident, and calls
\* CheckAndNotify for no service: the incidents open before it are open after it and
\* the states and last alert times of the manager are as before.
C30_MaintenanceSideEffectFree ==
    [][MaintenanceStep =>
          /\ sweep.pc \in {"idle", "done"} /\ sweep'.pc = "done"
          /\ sweep'.outcomes = <<>> /\ sweep'.trace = <<>>
          /\ status_checks' = status_checks
          /\ service_state' = service_state
          /\ incidents' = incidents
          /\ \A u \in Services : OpenIncidents(incidents', u) = OpenIncidents(incidents, u)
          /\ serviceState' = serviceState /\ lastAlert' = lastAlert
          /\ alerts' = alerts /\ notified' = notified]_vars

\* A maintenance run has returned after a run that found a service down: the incident
\* of that service is still open, the manager still holds it as down, and the service
\* is in the up bucket.
C30_Witness ==
    /\ sweep.pc = "done" /\ sweep.maintenanceMsg # ""
    /\ sweep.storage /\ sweep.notifyManager /\ Len(sweep.services) = 1
    /\ Len(sweep.up) = 1 /\ sweep.overall = "maintenance"
    /\ OpenIncidents(incidents, sweep.services[1].URL) # {}
    /\ sweep.services[1].URL \in DOMAIN serviceState
    /\ ~serviceState[sweep.services[1].URL]
    /\ Len(status_checks) = 1

====
